---- MODULE Spec2Model ----
(***************************************************************************)
(* Model of home-tidal-flood-warning: the tide ingestion pipeline          *)
(* (package fetcher, TidalFloodFetcher, in the version that stores tide    *)
(* times in UTC) and the alert/tide risk correlator                        *)
(* (cmd/api/controllers/alert.go).                                         *)
(*                                                                         *)
(* Units: a time.Time is [unix, zone]: minutes since 1970-01-01T00:00Z and *)
(* the zone's offset in minutes; heights are hundredths of a metre         *)
(* (260 = 2.6 m); strings that the code inspects are sequences of          *)
(* one-character strings.                                                  *)
(***************************************************************************)
EXTENDS Integers, Sequences, FiniteSets, TLC

VARIABLES
    store,      \* committed rows of table tide_data (what a statement outside a transaction reads)
    pc,         \* where each goroutine is: the start-up fetch, the scheduler loop, the Sync handler
    fs,         \* the locals of each goroutine's FetchAndStore call in progress
    returned,   \* the most recent return of FetchAndStore: who called, count, err
    stopChan,   \* f.stopChan: "open" or "closed"
    panicked,   \* the process died of a run-time panic
    now,        \* time.Now()
    nextRun,    \* the scheduler loop's nextRun
    ticks,      \* how often the clock has advanced (bounds the run)
    interval,   \* the interval argument of StartPeriodicFetch, in seconds
    page,       \* the document the station page serves to FetchPage
    response,   \* what the Sync handler has written to its request's ResponseWriter
    alert,      \* the AlertDetail handed to calculateTidalFloodRisk
    dbOk,       \* whether the database answered the last evaluation's query
    verdict,    \* the *TidalFloodRisk returned by the last evaluation, or NoVerdict
    shown,      \* what the alert endpoint wrote for its last request
    queried     \* whether the last evaluation executed the tide_data query

fetcherVars == <<pc, fs, returned, stopChan, panicked, now, nextRun, ticks, interval>>
riskVars == <<alert, dbOk, verdict, queried, shown>>
vars == <<store, fetcherVars, riskVars, page, response>>

Hour == 60
Day == 24 * Hour

(***************************************************************************)
(* time.Time                                                               *)
(***************************************************************************)
UTC == 0
\* time.FixedZone("WIB", 7*60*60)
wibTimezone == 7 * Hour

Time(unix, zone) == [unix |-> unix, zone |-> zone]
\* time.Time{}
ZeroTime == Time(0 - 1035593280, UTC)

\* t.In(loc), t.UTC(): the same instant shown in another zone
In(t, loc) == Time(t.unix, loc)

\* Wall-clock fields of t in its own zone
CivilDay(t) == (t.unix + t.zone) \div Day
HourOf(t) == ((t.unix + t.zone) % Day) \div Hour
MinuteOf(t) == (t.unix + t.zone) % Hour

IsLeap(y) == (y % 4 = 0 /\ y % 100 # 0) \/ y % 400 = 0
daysIn(m, y) ==
    IF m = 2 THEN (IF IsLeap(y) THEN 29 ELSE 28)
    ELSE IF m \in {4, 6, 9, 11} THEN 30 ELSE 31

\* Days from 1970-01-01 to the civil date y-m-d (proleptic Gregorian)
DaysFromCivil(y, m, d) ==
    LET yy == IF m <= 2 THEN y - 1 ELSE y
        era == yy \div 400
        yoe == yy - era * 400
        mp == IF m > 2 THEN m - 3 ELSE m + 9
        doy == (153 * mp + 2) \div 5 + d - 1
        doe == yoe * 365 + yoe \div 4 - yoe \div 100 + doy
    IN  era * 146097 + doe - 719468

\* The civil date [Y, M, D] of day number n
CivilFromDays(n) ==
    LET z == n + 719468
        era == z \div 146097
        doe == z - era * 146097
        yoe == (doe - doe \div 1460 + doe \div 36524 - doe \div 146096) \div 365
        doy == doe - (365 * yoe + yoe \div 4 - yoe \div 100)
        mp == (5 * doy + 2) \div 153
        d == doy - (153 * mp + 2) \div 5 + 1
        m == IF mp < 10 THEN mp + 3 ELSE mp - 9
        y == yoe + era * 400 + (IF m <= 2 THEN 1 ELSE 0)
    IN  [Y |-> y, M |-> m, D |-> d]

\* t.Year(), t.Month(), t.Day() as one record
DateOf(t) == CivilFromDays(CivilDay(t))

\* time.Date(y, m, d, hour, min, 0, 0, loc); out-of-range hour and min are
\* normalised by carrying into the next unit
Date(y, m, d, hour, min, loc) ==
    Time(DaysFromCivil(y, m, d) * Day + hour * Hour + min - loc, loc)

\* t.AddDate(0, 0, days) in a fixed zone
AddDays(t, days) == Time(t.unix + days * Day, t.zone)

(***************************************************************************)
(* Strings                                                                 *)
(***************************************************************************)
UpperLetters == <<"A","B","C","D","E","F","G","H","I","J","K","L","M",
                  "N","O","P","Q","R","S","T","U","V","W","X","Y","Z">>
LowerLetters == <<"a","b","c","d","e","f","g","h","i","j","k","l","m",
                  "n","o","p","q","r","s","t","u","v","w","x","y","z">>

\* strings.ToLower on one character
LowerChar(c) ==
    IF \E i \in 1..26 : UpperLetters[i] = c
    THEN LowerLetters[CHOOSE i \in 1..26 : UpperLetters[i] = c]
    ELSE c

\* strings.ToLower
ToLower(s) == [i \in 1..Len(s) |-> LowerChar(s[i])]

\* strings.Contains
Contains(s, sub) ==
    \E i \in 1..(Len(s) - Len(sub) + 1) : SubSeq(s, i, i + Len(sub) - 1) = sub

HeavyRainText == <<"h","e","a","v","y"," ","r","a","i","n">>

Digits == <<"0","1","2","3","4","5","6","7","8","9">>
IsDigit(c) == \E i \in 1..10 : Digits[i] = c
DigitVal(c) == (CHOOSE i \in 1..10 : Digits[i] = c) - 1
IsSpace(c) == c = " "
IsNumChar(c) == IsDigit(c) \/ c = "."
IsWordChar(c) ==
    \/ IsDigit(c)
    \/ c = "_"
    \/ \E i \in 1..26 : UpperLetters[i] = c \/ LowerLetters[i] = c

\* strings.TrimSpace
TrimSpace(s) ==
    IF \A i \in 1..Len(s) : IsSpace(s[i])
    THEN <<>>
    ELSE LET a == CHOOSE i \in 1..Len(s) :
                      ~IsSpace(s[i]) /\ \A k \in 1..(i-1) : IsSpace(s[k])
             b == CHOOSE i \in 1..Len(s) :
                      ~IsSpace(s[i]) /\ \A k \in (i+1)..Len(s) : IsSpace(s[k])
         IN  SubSeq(s, a, b)

\* The value of a non-empty sequence of decimal digits
RECURSIVE DigitsValue(_)
DigitsValue(s) ==
    IF Len(s) = 0 THEN 0
    ELSE 10 * DigitsValue(SubSeq(s, 1, Len(s) - 1)) + DigitVal(s[Len(s)])

\* strconv.Atoi: an optional sign followed by one or more decimal digits
AtoiOk(s) ==
    LET body == IF Len(s) > 0 /\ s[1] \in {"+", "-"} THEN Tail(s) ELSE s
    IN  Len(body) > 0 /\ \A i \in 1..Len(body) : IsDigit(body[i])
Atoi(s) ==
    IF s[1] = "-" THEN 0 - DigitsValue(Tail(s))
    ELSE IF s[1] = "+" THEN DigitsValue(Tail(s))
    ELSE DigitsValue(s)

\* strings.Split(s, ":"): the pieces between the colons
ColonPositions(s) == {i \in 1..Len(s) : s[i] = ":"}
SplitColon(s) ==
    LET cuts == ColonPositions(s)
        n == Cardinality(cuts)
        \* position of the k-th colon; 0 before the first, Len(s)+1 after the last
        cut(k) == IF k = 0 THEN 0
                  ELSE IF k = n + 1 THEN Len(s) + 1
                  ELSE CHOOSE i \in cuts : Cardinality({j \in cuts : j < i}) = k - 1
    IN  [k \in 1..(n + 1) |-> SubSeq(s, cut(k - 1) + 1, cut(k) - 1)]

\* The character classes of the two patterns: [\d.], \s, \w and \d
ClsNum == "[\\d.]"
ClsSpace == "\\s"
ClsWord == "\\w"
ClsDigit == "\\d"
InClass(cls, c) ==
    CASE cls = ClsNum -> IsNumChar(c)
      [] cls = ClsSpace -> IsSpace(c)
      [] cls = ClsWord -> IsWordChar(c)
      [] cls = ClsDigit -> IsDigit(c)

\* The end of the longest run of characters of class cls that starts at
\* position i (i-1 when s[i] is not of the class): how a greedy x+ or x*
\* matches when the next pattern element cannot match a character of x.
RunEnd(s, i, cls) ==
    IF i > Len(s) THEN i - 1
    ELSE CHOOSE j \in (i - 1)..Len(s) :
            /\ \A k \in i..j : InClass(cls, s[k])
            /\ (j < Len(s) => ~InClass(cls, s[j + 1]))

\* Whether the literal text lit occurs in s at position i
LitAt(s, i, lit) == i + Len(lit) - 1 <= Len(s) /\ SubSeq(s, i, i + Len(lit) - 1) = lit

(***************************************************************************)
(* Height/Time parser: parseHeight, parseTimeWIB, parseTideDate            *)
(***************************************************************************)
CharAt(s, k) == IF k \in 1..Len(s) THEN s[k] ELSE ""

\* strconv.ParseFloat on a numeral made of an optional '-', digits and dots
\* (all the height pattern lets through): at most one dot, at least one digit
ParseFloatOk(s) ==
    LET body == IF CharAt(s, 1) = "-" THEN Tail(s) ELSE s
    IN  /\ Cardinality({i \in 1..Len(body) : body[i] = "."}) <= 1
        /\ \E i \in 1..Len(body) : IsDigit(body[i])
\* Its value in hundredths (numerals of at most two decimals are exact)
ParseFloat(s) ==
    LET neg == CharAt(s, 1) = "-"
        body == IF neg THEN Tail(s) ELSE s
        dot == IF \E i \in 1..Len(body) : body[i] = "."
               THEN CHOOSE i \in 1..Len(body) : body[i] = "."
               ELSE Len(body) + 1
        whole == SubSeq(body, 1, dot - 1)
        frac == SubSeq(body, dot + 1, Len(body))
        f1 == IF Len(frac) >= 1 THEN DigitVal(frac[1]) ELSE 0
        f2 == IF Len(frac) >= 2 THEN DigitVal(frac[2]) ELSE 0
        mag == DigitsValue(whole) * 100 + f1 * 10 + f2
    IN  IF neg THEN 0 - mag ELSE mag

FtClose == <<"f","t",")">>

\* One attempt of (-?[\d.]+)\s*m\s*\((-?[\d.]+)\s*ft\) at position i
HeightMatchAt(s, i) ==
    LET a == IF CharAt(s, i) = "-" THEN i + 1 ELSE i
        e1 == RunEnd(s, a, ClsNum)
        sp1 == RunEnd(s, e1 + 1, ClsSpace)
        sp2 == RunEnd(s, sp1 + 2, ClsSpace)
        g2 == sp2 + 2
        b == IF CharAt(s, g2) = "-" THEN g2 + 1 ELSE g2
        e2 == RunEnd(s, b, ClsNum)
        sp3 == RunEnd(s, e2 + 1, ClsSpace)
    IN  [ok |-> /\ e1 >= a
                /\ CharAt(s, sp1 + 1) = "m"
                /\ CharAt(s, sp2 + 1) = "("
                /\ e2 >= b
                /\ LitAt(s, sp3 + 1, FtClose),
         m |-> SubSeq(s, i, e1),
         ft |-> SubSeq(s, g2, e2)]

\* The smallest number of a non-empty set of numbers
Least(S) == CHOOSE k \in S : \A j \in S : k <= j

\* Variant: the sign of a numeral is dropped
HeightOfMagnitude(matches) ==
    IF ~ParseFloatOk(matches.m) THEN [ok |-> FALSE, heightM |-> 0, heightFt |-> 0]
    ELSE IF ~ParseFloatOk(matches.ft) THEN [ok |-> FALSE, heightM |-> 0, heightFt |-> 0]
    ELSE [ok |-> TRUE,
          heightM |-> IF ParseFloat(matches.m) < 0 THEN 0 - ParseFloat(matches.m)
                      ELSE ParseFloat(matches.m),
          heightFt |-> IF ParseFloat(matches.ft) < 0 THEN 0 - ParseFloat(matches.ft)
                       ELSE ParseFloat(matches.ft)]

\* heightM and heightFt from the two matched numerals
HeightOf(matches) ==
    IF ~ParseFloatOk(matches.m) THEN [ok |-> FALSE, heightM |-> 0, heightFt |-> 0]
    ELSE IF ~ParseFloatOk(matches.ft) THEN [ok |-> FALSE, heightM |-> 0, heightFt |-> 0]
    ELSE [ok |-> TRUE, heightM |-> ParseFloat(matches.m),
          heightFt |-> ParseFloat(matches.ft)]

\* re.FindStringSubmatch takes the leftmost match; starts are the positions
\* at which the pattern matches
HeightSubmatch(heightStr, starts) ==
    IF starts = {} THEN [ok |-> FALSE, heightM |-> 0, heightFt |-> 0]
    ELSE HeightOf(HeightMatchAt(heightStr, Least(starts)))

\* parseHeight(heightStr)
parseHeight(heightStr) ==
    HeightSubmatch(heightStr,
                   {i \in 1..Len(heightStr) : HeightMatchAt(heightStr, i).ok})

\* time.Date(date.Year(), date.Month(), date.Day(), hour, minute, 0, 0, loc)
OnDayOf(ymd, hour, minute, loc) == Date(ymd.Y, ymd.M, ymd.D, hour, minute, loc)

\* Variant: the clock time is taken as a UTC time of the day
TimeOfPartsInUTC(date, parts) ==
    IF Len(parts) # 2 THEN [ok |-> FALSE, time |-> ZeroTime]
    ELSE IF ~AtoiOk(parts[1]) THEN [ok |-> FALSE, time |-> ZeroTime]
    ELSE IF ~AtoiOk(parts[2]) THEN [ok |-> FALSE, time |-> ZeroTime]
    ELSE [ok |-> TRUE,
          time |-> OnDayOf(DateOf(date), Atoi(parts[1]), Atoi(parts[2]), UTC)]

\* hour and minute from the two parts, then the time in WIB, as UTC
TimeOfParts(date, parts) ==
    IF Len(parts) # 2 THEN [ok |-> FALSE, time |-> ZeroTime]
    ELSE IF ~AtoiOk(parts[1]) THEN [ok |-> FALSE, time |-> ZeroTime]
    ELSE IF ~AtoiOk(parts[2]) THEN [ok |-> FALSE, time |-> ZeroTime]
    ELSE [ok |-> TRUE,
          time |-> In(OnDayOf(DateOf(date), Atoi(parts[1]), Atoi(parts[2]), wibTimezone),
                      UTC)]

\* Variant: what follows a second colon is left out
parseTimeOfFirstParts(date, timeStr) ==
    TimeOfParts(date, IF Len(SplitColon(timeStr)) < 2 THEN SplitColon(timeStr)
                      ELSE SubSeq(SplitColon(timeStr), 1, 2))

\* parseTimeWIB(date, timeStr): "HH:MM" on the day of date, in WIB, as UTC
parseTimeWIB(date, timeStr) == TimeOfParts(date, SplitColon(timeStr))

longMonthNames ==
    << <<"J","a","n","u","a","r","y">>,
       <<"F","e","b","r","u","a","r","y">>,
       <<"M","a","r","c","h">>,
       <<"A","p","r","i","l">>,
       <<"M","a","y">>,
       <<"J","u","n","e">>,
       <<"J","u","l","y">>,
       <<"A","u","g","u","s","t">>,
       <<"S","e","p","t","e","m","b","e","r">>,
       <<"O","c","t","o","b","e","r">>,
       <<"N","o","v","e","m","b","e","r">>,
       <<"D","e","c","e","m","b","e","r">> >>

\* One attempt of (\w+)\s+(\w+)\s+(\d+),\s+(\d+) at position i
DateMatchAt(s, i) ==
    LET e1 == RunEnd(s, i, ClsWord)
        s1 == RunEnd(s, e1 + 1, ClsSpace)
        e2 == RunEnd(s, s1 + 1, ClsWord)
        s2 == RunEnd(s, e2 + 1, ClsSpace)
        e3 == RunEnd(s, s2 + 1, ClsDigit)
        s3 == RunEnd(s, e3 + 2, ClsSpace)
        e4 == RunEnd(s, s3 + 1, ClsDigit)
    IN  [ok |-> /\ e1 >= i /\ s1 > e1 /\ e2 > s1 /\ s2 > e2 /\ e3 > s2
                /\ CharAt(s, e3 + 1) = ","
                /\ s3 > e3 + 1 /\ e4 > s3,
         month |-> SubSeq(s, s1 + 1, e2),
         day |-> SubSeq(s, s2 + 1, e3),
         year |-> SubSeq(s, s3 + 1, e4)]

\* time.ParseInLocation("January 2, 2006", "<month> <day>, <year>", wibTimezone):
\* a month name in any case, a day of one or two digits, a year of four
\* digits, and a day that exists in that month
ParseDateOk(m) ==
    /\ \E k \in 1..12 : ToLower(longMonthNames[k]) = ToLower(m.month)
    /\ Len(m.day) <= 2
    /\ Len(m.year) = 4
    /\ LET mo == CHOOSE k \in 1..12 : ToLower(longMonthNames[k]) = ToLower(m.month)
       IN  DigitsValue(m.day) >= 1 /\ DigitsValue(m.day) <= daysIn(mo, DigitsValue(m.year))
ParseDate(m) ==
    [Y |-> DigitsValue(m.year),
     M |-> CHOOSE k \in 1..12 : ToLower(longMonthNames[k]) = ToLower(m.month),
     D |-> DigitsValue(m.day)]

\* Variant: dateForStorage is the instant of WIB midnight, shown in UTC
TideDatesOfInstant(date) ==
    [ok |-> TRUE,
     dateForStorage |-> In(OnDayOf(date, 0, 0, wibTimezone), UTC),
     dateWIB |-> OnDayOf(date, 0, 0, wibTimezone)]

\* dateForStorage is UTC midnight of the header's day, dateWIB is WIB
\* midnight of the same day
TideDates(date) ==
    [ok |-> TRUE,
     dateForStorage |-> OnDayOf(date, 0, 0, UTC),
     dateWIB |-> OnDayOf(date, 0, 0, wibTimezone)]

NoTideDates == [ok |-> FALSE, dateForStorage |-> ZeroTime, dateWIB |-> ZeroTime]

TideDatesOf(matches) ==
    IF ~ParseDateOk(matches) THEN NoTideDates ELSE TideDates(ParseDate(matches))

DateSubmatch(text, starts) ==
    IF starts = {} THEN NoTideDates
    ELSE TideDatesOf(DateMatchAt(text, Least(starts)))

\* parseTideDate(text)
parseTideDate(text) ==
    DateSubmatch(text, {i \in 1..Len(text) : DateMatchAt(text, i).ok})

(***************************************************************************)
(* models.TideData                                                         *)
(***************************************************************************)
TideTypeHigh == "high"
TideTypeLow == "low"
TideLocation == "Sekupang"

\* A row of tide_data.  ID is the ULID that BeforeCreate assigns on insert.
TideData(id, date, tideType, tideTime, heightM, heightFt) ==
    [ID |-> id, Location |-> TideLocation, Date |-> date, TideType |-> tideType,
     TideTime |-> tideTime, HeightM |-> heightM, HeightFt |-> heightFt]

\* The ID of a row that has not been inserted yet
NoID == <<>>

(***************************************************************************)
(* Tide scraper: Fetch                                                     *)
(***************************************************************************)
TextTideTimesFor == <<"T","i","d","e"," ","T","i","m","e","s"," ","f","o","r">>
TextWIB == <<"(","W","I","B",")">>
TextHigh == <<"h","i","g","h">>
TextLow == <<"l","o","w">>
HeaderDec4 == <<"T","i","d","e"," ","T","i","m","e","s"," ","f","o","r"," ","S","e","k","u","p","a","n","g",":"," ","T","h","u","r","s","d","a","y"," ","D","e","c","e","m","b","e","r"," ","4",","," ","2","0","2","5"," ","(","W","I","B",")">>
HeaderDec5 == <<"T","i","d","e"," ","T","i","m","e","s"," ","f","o","r"," ","S","e","k","u","p","a","n","g",":"," ","F","r","i","d","a","y"," ","d","e","c","e","m","b","e","r"," ","0","5",","," ","2","0","2","5"," ","(","W","I","B",")">>
HeaderFeb29 == <<"T","i","d","e"," ","T","i","m","e","s"," ","f","o","r"," ","S","e","k","u","p","a","n","g",":"," ","T","h","u","r","s","d","a","y"," ","F","e","b","r","u","a","r","y"," ","2","9",","," ","2","0","2","4"," ","(","W","I","B",")">>
HeaderJan1 == <<"T","i","d","e"," ","T","i","m","e","s"," ","f","o","r"," ","S","e","k","u","p","a","n","g",":"," ","T","h","u","r","s","d","a","y"," "," ","J","a","n","u","a","r","y"," ","1",","," ","2","0","2","6"," ","(","W","I","B",")">>
HeaderNoDate == <<"T","i","d","e"," ","T","i","m","e","s"," ","f","o","r"," ","S","e","k","u","p","a","n","g",":"," ","t","o","d","a","y"," ","(","W","I","B",")">>
HeaderBadMonth == <<"T","i","d","e"," ","T","i","m","e","s"," ","f","o","r"," ","S","e","k","u","p","a","n","g",":"," ","T","h","u","r","s","d","a","y"," ","D","e","s","e","m","b","e","r"," ","4",","," ","2","0","2","5"," ","(","W","I","B",")">>
HeaderBadDay == <<"T","i","d","e"," ","T","i","m","e","s"," ","f","o","r"," ","S","e","k","u","p","a","n","g",":"," ","S","u","n","d","a","y"," ","F","e","b","r","u","a","r","y"," ","3","0",","," ","2","0","2","5"," ","(","W","I","B",")">>
DivOther == <<"S","u","n","r","i","s","e"," ","0","5",":","5","0"," ","(","W","I","B",")">>
CellHigh == <<"H","i","g","h"," ","T","i","d","e">>
CellLow == <<" ","l","o","w"," ">>
CellSlack == <<"S","l","a","c","k">>
T0000 == <<"0",":","0","0">>
T0659 == <<"6",":","5","9">>
T0700 == <<"0","7",":","0","0">>
T0312 == <<"0","3",":","1","2">>
T0945 == <<"9",":","4","5">>
T1530 == <<"1","5",":","3","0">>
T2210 == <<"2","2",":","1","0">>
TNoColon == <<"0","3","1","2">>
TWords == <<"a","b",":","c","d">>
TNoMinute == <<"3",":">>
TNoHour == <<":","1","2">>
TAm == <<"1","2",":","3","0","a","m">>
TInnerSpace == <<"3"," ",":","1","2">>
TLate == <<"2","5",":","7","0">>
TPlus == <<"+","3",":","1","2">>
TMinus == <<"-","1",":","3","0">>
TBadDash == <<"3","-","1","2">>
TBadPM == <<"3",":","1","2"," ","P","M">>
TBadSecs == <<"0","3",":","1","2",":","0","0">>
H28 == <<"2",".","8"," ","m"," ","(","9",".","2"," ","f","t",")">>
H27 == <<"2",".","7"," ","m"," ","(","8",".","9"," ","f","t",")">>
H29 == <<"2",".","9","m","(","9",".","5","f","t",")">>
H26 == <<"2",".","6"," ","m"," ","(","8",".","5"," ","f","t",")">>
H04 == <<"0",".","4"," ","m"," ","(","1",".","3"," ","f","t",")">>
HNeg == <<"-","0",".","1"," ","m"," ","(","-","0",".","3"," ","f","t",")">>
H11 == <<"1",".","1"," ","m"," ","(","3",".","6"," ","f","t",")">>
HInText == <<"t","i","d","e"," ","1",".","1"," ","m"," ","(","3",".","6"," ","f","t",")"," ","r","i","s","i","n","g">>
HNoFeet == <<"1",".","1"," ","m">>
HDotFeet == <<"1",".","1"," ","m"," ","(","."," ","f","t",")">>
HSwapped == <<"1",".","1"," ","f","t"," ","(","3",".","6"," ","m",")">>
HNoWhole == <<"-",".","5"," ","m"," ","(","-","1",".","6"," ","f","t",")">>
HBogus == <<"b","o","g","u","s">>
HTwoDots == <<"1",".","2",".","3"," ","m"," ","(","4"," ","f","t",")">>

\* What http.Get(WorldTidesURL) and goquery make of the page: whether the
\* request succeeds, the status code, whether the body can be read and
\* parsed, the text of every div in document order, and the td texts of
\* every tr of table.table-bordered (a row of th cells has no td).
Document(reachable, status, readable, divs, trs) ==
    [reachable |-> reachable, status |-> status, readable |-> readable,
     divs |-> divs, trs |-> trs]

HeadRow == <<>>
DocUnreachable == Document(FALSE, 0, FALSE, <<>>, <<>>)
DocStatus500 == Document(TRUE, 500, TRUE, <<>>, <<>>)
DocUnreadable == Document(TRUE, 200, FALSE, <<>>, <<>>)
DocNoHeader == Document(TRUE, 200, TRUE, <<DivOther>>,
                        <<HeadRow, <<CellHigh, T0312, H28>>>>)
DocNoDate == Document(TRUE, 200, TRUE, <<HeaderNoDate>>,
                      <<HeadRow, <<CellHigh, T0312, H28>>>>)
DocBadMonth == Document(TRUE, 200, TRUE, <<HeaderBadMonth>>,
                        <<HeadRow, <<CellHigh, T0312, H28>>>>)
DocBadDay == Document(TRUE, 200, TRUE, <<HeaderBadDay>>,
                      <<HeadRow, <<CellHigh, T0312, H28>>>>)
DocNoRows == Document(TRUE, 200, TRUE, <<HeaderDec4>>, <<HeadRow>>)
DocOnlyBadRows == Document(TRUE, 200, TRUE, <<HeaderDec4, DivOther>>,
                           <<<<CellHigh, T0312, H28>>, <<CellSlack, T0312, H28>>,
                             <<CellHigh, TBadDash, H28>>, <<CellLow, T0945, HBogus>>,
                             <<CellHigh, T0312>>, <<CellHigh, TBadPM, H28>>>>)
DocDec4 == Document(TRUE, 200, TRUE, <<DivOther, HeaderDec4>>,
                    <<HeadRow, <<CellHigh, T0312, H28>>, <<CellSlack, T1530, H27>>,
                      <<CellLow, T0945, H04>>>>)
DocDec4Later == Document(TRUE, 200, TRUE, <<HeaderDec4>>,
                         <<HeadRow, <<CellHigh, T0312, H27>>, <<CellLow, T0945, HTwoDots>>,
                           <<CellHigh, T1530, H29>>>>)
DocDec5 == Document(TRUE, 200, TRUE, <<HeaderDec4, HeaderDec5>>,
                    <<HeadRow, <<CellLow, T0312, HNeg>>, <<CellHigh, TBadSecs, H26>>>>)

\* The documents the station page may serve
Documents ==
    {DocUnreachable, DocStatus500, DocUnreadable, DocNoHeader, DocNoDate,
     DocBadMonth, DocBadDay, DocNoRows, DocOnlyBadRows, DocDec4, DocDec4Later,
     DocDec5}

ErrFetch == "failed to fetch tide data"
ErrStatus == "worldtides.info returned status code"
ErrHTML == "failed to parse HTML"
ErrNoHeader == "could not find tide date header"
ErrDate == "failed to parse tide date"
ErrNoData == "no tide data found in the table"
ErrDelete == "failed to delete existing tide data"
ErrInsert == "failed to insert tide data"
ErrCommit == "commit failed"
NoErr == "nil"

\* The header div: the last div whose text holds both marker phrases
IsHeaderDiv(text) == Contains(text, TextTideTimesFor) /\ Contains(text, TextWIB)
FindDateText(doc) ==
    LET hits == {i \in 1..Len(doc.divs) : IsHeaderDiv(doc.divs[i])}
    IN  IF hits = {} THEN <<>>
        ELSE doc.divs[CHOOSE i \in hits : \A j \in hits : j <= i]

NoRow == [ok |-> FALSE, data |-> TideData(NoID, ZeroTime, "", ZeroTime, 0, 0)]

\* The row made of three trimmed cells: the kind by substring, then the
\* time, then the height; a cell that fails drops the row
RowOf(tideTypeStr, tideTime, height, date) ==
    IF ~Contains(ToLower(tideTypeStr), TextHigh) /\ ~Contains(ToLower(tideTypeStr), TextLow)
    THEN NoRow
    ELSE IF ~tideTime.ok THEN NoRow
    ELSE IF ~height.ok THEN NoRow
    ELSE [ok |-> TRUE,
          data |-> TideData(NoID, date,
                            IF Contains(ToLower(tideTypeStr), TextHigh)
                            THEN TideTypeHigh ELSE TideTypeLow,
                            tideTime.time, height.heightM, height.heightFt)]

\* One tr of the table (i is its zero-based index): the row it yields, if any
ParseRow(i, cols, dateForStorage, dateWIB) ==
    IF i = 0 THEN NoRow
    ELSE IF Len(cols) # 3 THEN NoRow
    ELSE RowOf(TrimSpace(cols[1]), parseTimeWIB(dateWIB, TrimSpace(cols[2])),
               parseHeight(TrimSpace(cols[3])), dateForStorage)

DataOf(kept) == [k \in 1..Len(kept) |-> kept[k].data]

\* Variant: one row that is dropped drops the batch
ParseTableAllOrNothing(doc, dateForStorage, dateWIB) ==
    IF \E k \in 2..Len(doc.trs) :
          ~ParseRow(k - 1, doc.trs[k], dateForStorage, dateWIB).ok
    THEN <<>>
    ELSE DataOf([k \in 1..(Len(doc.trs) - 1) |->
                    ParseRow(k, doc.trs[k + 1], dateForStorage, dateWIB)])

\* The accepted rows of the table, in document order
ParseTable(doc, dateForStorage, dateWIB) ==
    DataOf(SelectSeq([k \in 1..Len(doc.trs) |->
                         ParseRow(k - 1, doc.trs[k], dateForStorage, dateWIB)],
                     LAMBDA r : r.ok))

FetchResult(tideData, date, err) == [tideData |-> tideData, date |-> date, err |-> err]

\* Variant: the empty batch is returned with its date
FetchBatchAllowsEmpty(tideData, date) == FetchResult(tideData, date, NoErr)

\* The end of Fetch: an empty batch is an error
FetchBatch(tideData, date) ==
    IF Len(tideData) = 0 THEN FetchResult(<<>>, ZeroTime, ErrNoData)
    ELSE FetchResult(tideData, date, NoErr)

\* Fetch from the parsed header on
FetchTable(doc, d) ==
    IF ~d.ok THEN FetchResult(<<>>, ZeroTime, ErrDate)
    ELSE FetchBatch(ParseTable(doc, d.dateForStorage, d.dateWIB), d.dateForStorage)

\* Fetch from the header text on
FetchDated(doc, dateText) ==
    IF dateText = <<>> THEN FetchResult(<<>>, ZeroTime, ErrNoHeader)
    ELSE FetchTable(doc, parseTideDate(dateText))

\* Fetch() on the document the page serves
Fetch(doc) ==
    IF ~doc.reachable THEN FetchResult(<<>>, ZeroTime, ErrFetch)
    ELSE IF doc.status # 200 THEN FetchResult(<<>>, ZeroTime, ErrStatus)
    ELSE IF ~doc.readable THEN FetchResult(<<>>, ZeroTime, ErrHTML)
    ELSE FetchDated(doc, FindDateText(doc))

(***************************************************************************)
(* Risk correlator: calculateTidalFloodRisk                                *)
(***************************************************************************)
tideBufferDuration == 2 * Hour
RiskHeightThreshold == 260

MsgNoRain == "No heavy rain expected"
MsgUnknown == "Unable to determine tidal flood risk"
MsgNoTide == "No tidal flood risk: No high tide (>2.6m) during or near alert period"
MsgModerate == "MODERATE RISK: Heavy rain with high tide (>2.6m) shortly after - Sea level rising during alert period"
MsgHigh == "HIGH RISK: Heavy rain expected during high tide (>2.6m) - Flash flood possible!"

TidalFloodRisk(hasRisk, level, tideType, tideTime, heightM, heavyRain, msg) ==
    [HasRisk |-> hasRisk, RiskLevel |-> level, TideType |-> tideType,
     TideTime |-> tideTime, TideHeightM |-> heightM, HeavyRain |-> heavyRain,
     Message |-> msg]

\* Variant: any mention of rain counts as heavy rain
hasRainWord(a) == Contains(ToLower(a.Description), <<"r","a","i","n">>)

\* descLower contains "heavy rain"
hasHeavyRain(a) == Contains(ToLower(a.Description), HeavyRainText)

\* alert.Expires.Add(tideBufferDuration)
expiresWithBuffer(a) == Time(a.Expires.unix + tideBufferDuration, a.Expires.zone)

\* Variant: height_m >= ? instead of height_m > ?
QueryWhereAtLeast(row, a) ==
    /\ row.TideType = TideTypeHigh
    /\ row.HeightM >= RiskHeightThreshold
    /\ row.TideTime.unix >= a.Effective.unix
    /\ row.TideTime.unix <= expiresWithBuffer(a).unix

\* WHERE tide_type = ? AND height_m > ? AND tide_time >= ? AND tide_time <= ?
QueryWhere(row, a) ==
    /\ row.TideType = TideTypeHigh
    /\ row.HeightM > RiskHeightThreshold
    /\ row.TideTime.unix >= a.Effective.unix
    /\ row.TideTime.unix <= expiresWithBuffer(a).unix

\* Variant: ORDER BY height_m ASC
OrderByHeightAsc(rows) ==
    {s \in [1..Cardinality(rows) -> rows] :
        /\ \A i, j \in 1..Cardinality(rows) : i # j => s[i] # s[j]
        /\ \A i, j \in 1..Cardinality(rows) : i < j => s[i].HeightM <= s[j].HeightM}

\* ORDER BY height_m DESC: every ordering the database may return (the order
\* of rows of equal height is not determined by the query).
OrderByHeightDesc(rows) ==
    LET n == Cardinality(rows)
    IN  {s \in [1..n -> rows] :
            /\ \A i, j \in 1..n : i # j => s[i] # s[j]
            /\ \A i \in 1..n, j \in 1..n : i < j => s[i].HeightM >= s[j].HeightM}

\* db.Where(...).Order(...).Find(&tideData): every result the query may
\* give on rows st; ok is whether the database answers
Find(st, ok, a) ==
    IF ~ok THEN {[err |-> TRUE, tideData |-> <<>>]}
    ELSE {[err |-> FALSE, tideData |-> rows] :
             rows \in OrderByHeightDesc({row \in st : QueryWhere(row, a)})}

\* Variant: the rows the query returns are taken out of the table
FindConsumes(st, a) == {row \in st : ~QueryWhere(row, a)}

\* The table after Find: a SELECT leaves the rows as they are
StoreAfterFind(st, a) == st

\* Variant: !highestTide.TideTime.Before(alert.Expires)
NotBeforeExpires(tide, a) == tide.TideTime.unix >= a.Expires.unix

\* highestTide.TideTime.After(alert.Expires)
InBufferZone(tide, a) == tide.TideTime.unix > a.Expires.unix

\* The verdict that cites highestTide
RiskOfTide(highestTide, a) ==
    IF InBufferZone(highestTide, a)
    THEN TidalFloodRisk(TRUE, "moderate", highestTide.TideType,
                        highestTide.TideTime, highestTide.HeightM, hasHeavyRain(a),
                        MsgModerate)
    ELSE TidalFloodRisk(TRUE, "high", highestTide.TideType,
                        highestTide.TideTime, highestTide.HeightM, hasHeavyRain(a),
                        MsgHigh)

\* Variant: a row inside the alert period is preferred to a higher one in
\* the buffer zone
RiskPreferringPeriod(tideData, a, nowv) ==
    IF Len(tideData) = 0
    THEN TidalFloodRisk(FALSE, "none", "", nowv, 0, hasHeavyRain(a), MsgNoTide)
    ELSE IF \E i \in 1..Len(tideData) : ~InBufferZone(tideData[i], a)
    THEN RiskOfTide(tideData[CHOOSE i \in 1..Len(tideData) :
                                 /\ ~InBufferZone(tideData[i], a)
                                 /\ \A j \in 1..(i - 1) : InBufferZone(tideData[j], a)],
                    a)
    ELSE RiskOfTide(tideData[1], a)

\* The verdict built from the rows a successful query returned
RiskFromTides(tideData, a, nowv) ==
    IF Len(tideData) = 0
    THEN TidalFloodRisk(FALSE, "none", "", nowv, 0, hasHeavyRain(a), MsgNoTide)
    ELSE RiskOfTide(tideData[1], a)

\* Variant: result.Error is not looked at
RiskIgnoringError(res, a, nowv) == RiskFromTides(res.tideData, a, nowv)

\* The verdict built from the query's result
RiskFromQuery(res, a, nowv) ==
    IF res.err
    THEN TidalFloodRisk(FALSE, "unknown", "", nowv, 0, hasHeavyRain(a), MsgUnknown)
    ELSE RiskFromTides(res.tideData, a, nowv)

\* Every outcome of calculateTidalFloodRisk(db, alert, timezone) evaluated at
\* wall-clock time nowv against committed rows st: the verdict and whether
\* the query was executed.
calculateTidalFloodRisk(st, ok, a, nowv) ==
    IF ~hasHeavyRain(a)
    THEN {[risk |-> TidalFloodRisk(FALSE, "none", "", nowv, 0, hasHeavyRain(a), MsgNoRain),
           queried |-> FALSE]}
    ELSE {[risk |-> RiskFromQuery(res, a, nowv), queried |-> TRUE] :
             res \in Find(st, ok, a)}

(***************************************************************************)
(* The alert endpoint: Index, toResponse and the HTML cards                *)
(***************************************************************************)
\* formatCardTime: the time in the zone, as "2006-01-02 15:04"
formatCardTime(t, zone) ==
    <<DateOf(In(t, zone)).Y, DateOf(In(t, zone)).M, DateOf(In(t, zone)).D,
      HourOf(In(t, zone)), MinuteOf(In(t, zone))>>

\* "%.1f" of a height: tenths of a metre, rounded
FormatTenths(heightM) ==
    IF heightM >= 0 THEN (heightM + 5) \div 10 ELSE 0 - ((5 - heightM) \div 10)

\* html.EscapeString
EscapeString(text) == <<"html", text>>

\* The JSON of the verdict, field by field as the struct tags name them
RiskJSON(risk) ==
    <<<<"has_risk", risk.HasRisk>>, <<"risk_level", risk.RiskLevel>>,
      <<"tide_type", risk.TideType>>, <<"tide_time", risk.TideTime.unix>>,
      <<"tide_height_m", risk.TideHeightM>>, <<"heavy_rain", risk.HeavyRain>>,
      <<"message", risk.Message>>>>

\* toResponse(detail, timezone, floodRisk), of the fields the model has
toResponse(detail, zone, floodRisk) ==
    <<<<"effective", In(detail.Effective, zone).unix>>,
      <<"expires", In(detail.Expires, zone).unix>>,
      <<"description", detail.Description>>,
      <<"tidal_flood_risk", RiskJSON(floodRisk)>>>>

\* The card's risk: nil unless floodRisk.HasRisk
NoCardRisk == [nil |-> TRUE]

\* Variant: the card gets every verdict
CardRiskAlways(floodRisk) ==
    [nil |-> FALSE, HasRisk |-> floodRisk.HasRisk, RiskLevel |-> floodRisk.RiskLevel,
     TideTime |-> floodRisk.TideTime, TideHeightM |-> floodRisk.TideHeightM,
     Message |-> floodRisk.Message]

CardFloodRisk(floodRisk) ==
    IF floodRisk.HasRisk
    THEN [nil |-> FALSE, HasRisk |-> floodRisk.HasRisk, RiskLevel |-> floodRisk.RiskLevel,
          TideTime |-> floodRisk.TideTime, TideHeightM |-> floodRisk.TideHeightM,
          Message |-> floodRisk.Message]
    ELSE NoCardRisk

\* The badge's text: colours, icon, level, message, tide time and height
Badge(bgColor, borderColor, icon, textColor, risk, zone) ==
    <<bgColor, borderColor, icon, textColor, risk.RiskLevel,
      EscapeString(risk.Message), formatCardTime(risk.TideTime, zone),
      FormatTenths(risk.TideHeightM)>>

\* renderFloodRiskBadge(risk, timezone)
renderFloodRiskBadge(risk, zone) ==
    IF risk.nil THEN <<>>
    ELSE IF ~risk.HasRisk THEN <<>>
    ELSE CASE risk.RiskLevel = "high"
                -> Badge("#fef2f2", "#fca5a5", "wave", "#dc2626", risk, zone)
           [] risk.RiskLevel = "moderate"
                -> Badge("#fffbeb", "#fcd34d", "warning", "#d97706", risk, zone)
           [] OTHER -> <<>>

\* renderFloodRiskBadgeDark(risk, timezone)
renderFloodRiskBadgeDark(risk, zone) ==
    IF risk.nil THEN <<>>
    ELSE IF ~risk.HasRisk THEN <<>>
    ELSE CASE risk.RiskLevel = "high"
                -> Badge("#450a0a", "#991b1b", "wave", "#fca5a5", risk, zone)
           [] risk.RiskLevel = "moderate"
                -> Badge("#451a03", "#92400e", "warning", "#fcd34d", risk, zone)
           [] OTHER -> <<>>

AlertCardData(detail, zone, floodRisk) ==
    [Effective |-> detail.Effective, Expires |-> detail.Expires,
     Description |-> detail.Description, Timezone |-> zone, FloodRisk |-> floodRisk]

\* RenderHTMLCard(data) and RenderHTMLCardDark(data)
RenderHTMLCard(data) ==
    <<"light", EscapeString(data.Description),
      renderFloodRiskBadge(data.FloodRisk, data.Timezone),
      formatCardTime(data.Effective, data.Timezone),
      formatCardTime(data.Expires, data.Timezone)>>

RenderHTMLCardDark(data) ==
    <<"dark", EscapeString(data.Description),
      renderFloodRiskBadgeDark(data.FloodRisk, data.Timezone),
      formatCardTime(data.Effective, data.Timezone),
      formatCardTime(data.Expires, data.Timezone)>>

\* The values of the query parameter as-card
CardModes == {"", "html", "html-dark"}

\* What Index writes for the alert and its verdict
IndexResponse(asCard, detail, zone, floodRisk) ==
    CASE asCard = "html"
           -> <<"text/html", RenderHTMLCard(AlertCardData(detail, zone, CardFloodRisk(floodRisk)))>>
      [] asCard = "html-dark"
           -> <<"text/html", RenderHTMLCardDark(AlertCardData(detail, zone, CardFloodRisk(floodRisk)))>>
      [] OTHER -> <<"application/json", toResponse(detail, zone, floodRisk)>>

(***************************************************************************)
(* Tide store synchronizer: FetchAndStore                                  *)
(***************************************************************************)
\* The goroutines that call FetchAndStore: the start-up fetch and the
\* scheduler loop of StartPeriodicFetch, and the handler of a Sync request
Procs == {"init", "loop", "sync"}

\* FetchAndStore's locals: the batch and date Fetch returned, whether the
\* DELETE has run, and count
\* StartPeriodicFetch has not been called
NoInterval == 0 - 1
NoCall == [tideData |-> <<>>, date |-> ZeroTime, deleted |-> FALSE, count |-> 0]

Result(p, count, err) == [proc |-> p, count |-> count, err |-> err]
NoResult == Result("none", 0, "none")

\* Fetch of every document
Fetched == [doc \in Documents |-> Fetch(doc)]

\* Variant: WHERE location = ?
SameLocation(row, location, date) == row.Location = location

\* Variant: WHERE date = ?
SameDate(row, location, date) == row.Date.unix = date.unix

\* WHERE location = ? AND date = ?
SameDay(row, location, date) ==
    row.Location = location /\ row.Date.unix = date.unix
Partition(rows, location, date) == {row \in rows : SameDay(row, location, date)}

\* helpers.NewULID(): no two rows of the table share an ID.  Row idx of a
\* batch gets the ID <<who, idx>> of the caller who creates it; a caller's
\* next batch of the same day replaces its previous one.
NewULID(who, idx) == <<who, idx>>

\* The rows p's transaction has created so far
Created(p) ==
    {[fs[p].tideData[i] EXCEPT !.ID = NewULID(p, i)] : i \in 1..fs[p].count}

\* The rows of table tide_data as the statements of p's transaction see
\* them: the committed rows, less the partition p deleted, plus p's rows
TxView(p) ==
    IF fs[p].deleted
    THEN (store \ Partition(store, TideLocation, fs[p].date)) \cup Created(p)
    ELSE store

\* Variant: the DELETE of a transaction waits for no other transaction
NeverLocked(p) == FALSE

\* A transaction holds the write lock of its partition from its DELETE to
\* its end; the DELETE of another transaction on that partition waits.
LockedByOther(p) ==
    \E q \in Procs \ {p} :
        /\ pc[q] = "tx"
        /\ fs[q].deleted
        /\ fs[q].date.unix = fs[p].date.unix

\* Variant: the statements run on f.db, outside the transaction
Autocommit(committed, working) == working

\* f.db.Transaction(fn): a statement of fn leaves the committed rows alone
AfterTxStatement(committed, working) == committed
\* Variant: the rows committed before stay beside the new ones
CommitKeepsOld(committed, working) == committed \cup working

\* Variant: a COMMIT over rows that a call of this process has stored is
\* dropped
CommitFirstWriterWins(committed, working) ==
    IF \E row \in committed : row.ID[1] \in Procs THEN committed ELSE working

\* fn returned nil: COMMIT
AfterCommit(committed, working) == working
\* Variant: what the failed transaction wrote stays
NoRollback(committed, working) == working

\* Variant: the ROLLBACK undoes the inserts and not the DELETE
RollbackKeepsDelete(committed, working) == committed \cap working

\* fn returned an error, or COMMIT failed: ROLLBACK
AfterRollback(committed, working) == committed

\* The request has not been answered
NoResponse == [status |-> 0, body |-> [none |-> TRUE]]

\* Variant: the handler answers "Sync completed" with the count whatever the error
SyncAlwaysCompleted(count, err) ==
    [status |-> 200, body |-> [message |-> "Sync completed", count |-> count]]

\* The handler of Sync with what FetchAndStore returned:
\* traits.WriteErrorResponse(w, http.StatusInternalServerError, err.Error()),
\* or traits.WriteResponse(w, {"message": "Sync completed", "count": count})
SyncResponse(count, err) ==
    IF err # NoErr
    THEN [status |-> 500, body |-> [error |-> err]]
    ELSE [status |-> 200, body |-> [message |-> "Sync completed", count |-> count]]

\* Where the caller of FetchAndStore goes on after the call: the start-up
\* goroutine ends, the loop computes the next run, the handler is free again
AfterCall(p) ==
    CASE p = "init" -> "done"
      [] p = "loop" -> "calc"
      [] p = "sync" -> "idle"

\* Variant: the loop returns when its cycle has failed
ReturnEndsLoopOnError(p, count, err) ==
    /\ pc' = [pc EXCEPT ![p] = IF p = "loop" /\ err # "nil" THEN "stopped"
                                ELSE IF p = "init" THEN "done"
                                ELSE IF p = "loop" THEN "calc" ELSE "idle"]
    /\ fs' = [fs EXCEPT ![p] = [tideData |-> <<>>, date |-> ZeroTime,
                                deleted |-> FALSE, count |-> 0]]
    /\ returned' = [proc |-> p, count |-> count, err |-> err]
    /\ response' = IF p = "sync" THEN SyncResponse(count, err) ELSE response

\* return count, err; the Sync handler goes on to write its response
Return(p, count, err) ==
    /\ pc' = [pc EXCEPT ![p] = AfterCall(p)]
    /\ fs' = [fs EXCEPT ![p] = NoCall]
    /\ returned' = Result(p, count, err)
    /\ response' = IF p = "sync" THEN SyncResponse(count, err) ELSE response

\* Variant: the error of Fetch is not looked at
OpensAlways(r) == TRUE

\* Variant: len(tideData) is not looked at
OpensOnNilError(r) == r.err = NoErr

\* Whether FetchAndStore goes on to the transaction with this Fetch result
OpensTransaction(r) == r.err = NoErr /\ Len(r.tideData) # 0

\* FetchAndStore with the result r of Fetch: the two early returns, or on to
\* the transaction
AfterFetch(p, r) ==
    IF OpensTransaction(r)
    THEN /\ pc' = [pc EXCEPT ![p] = "tx"]
         /\ fs' = [fs EXCEPT ![p] = [NoCall EXCEPT !.tideData = r.tideData,
                                                    !.date = r.date]]
         /\ UNCHANGED <<returned, response>>
    ELSE Return(p, 0, r.err)

\* tideData, date, err := f.Fetch(), and the two early returns; docs are the
\* documents the page may serve
FetchStep(p, docs) ==
    /\ ~panicked
    /\ pc[p] = "fetch"
    /\ \E r \in {Fetched[doc] : doc \in docs} : AfterFetch(p, r)
    /\ UNCHANGED <<store, stopChan, panicked, now, nextRun, ticks, interval, riskVars, page>>

\* tx.Where("location = ? AND date = ?", TideLocation, date).Delete(...)
TxDelete(p) ==
    /\ ~panicked
    /\ pc[p] = "tx"
    /\ ~fs[p].deleted
    /\ ~LockedByOther(p)
    /\ fs' = [fs EXCEPT ![p].deleted = TRUE]
    /\ store' = AfterTxStatement(store,
                    store \ Partition(store, TideLocation, fs[p].date))
    /\ UNCHANGED <<pc, returned, stopChan, panicked, now, nextRun, ticks, interval, riskVars, page, response>>

\* tx.Create(&data); count++, for the next row of tideData
TxCreate(p) ==
    /\ ~panicked
    /\ pc[p] = "tx"
    /\ fs[p].deleted
    /\ fs[p].count < Len(fs[p].tideData)
    /\ LET idx == fs[p].count + 1
           data == [fs[p].tideData[idx] EXCEPT !.ID = NewULID(p, idx)]
       IN  /\ fs' = [fs EXCEPT ![p].count = idx]
           /\ store' = AfterTxStatement(store, TxView(p) \cup {data})
    /\ UNCHANGED <<pc, returned, stopChan, panicked, now, nextRun, ticks, interval, riskVars, page, response>>

\* fn returned nil and the transaction commits: return count, nil
TxCommit(p) ==
    /\ ~panicked
    /\ pc[p] = "tx"
    /\ fs[p].deleted
    /\ fs[p].count = Len(fs[p].tideData)
    /\ store' = AfterCommit(store, TxView(p))
    /\ Return(p, fs[p].count, NoErr)
    /\ UNCHANGED <<stopChan, panicked, now, nextRun, ticks, interval, riskVars, page>>

\* The error of the statement that fails at this point of the transaction
TxError(p) ==
    IF ~fs[p].deleted THEN ErrDelete
    ELSE IF fs[p].count < Len(fs[p].tideData) THEN ErrInsert
    ELSE ErrCommit

\* The DELETE, a Create or the COMMIT fails: the transaction rolls back and
\* FetchAndStore returns 0, err
TxFail(p) ==
    /\ ~panicked
    /\ pc[p] = "tx"
    /\ store' = AfterRollback(store, TxView(p))
    /\ Return(p, 0, TxError(p))
    /\ UNCHANGED <<stopChan, panicked, now, nextRun, ticks, interval, riskVars, page>>

FetchAndStore(p, docs) ==
    FetchStep(p, docs) \/ TxDelete(p) \/ TxCreate(p) \/ TxCommit(p) \/ TxFail(p)

\* tideData, date, err := f.Fetch() on the document the page serves now
FetchPage(p) ==
    /\ ~panicked
    /\ pc[p] = "fetch"
    /\ AfterFetch(p, Fetch(page))
    /\ UNCHANGED <<store, stopChan, panicked, now, nextRun, ticks, interval, riskVars, page>>

\* POST /api/v1/tidal-floods/sync: the handler calls FetchAndStore
Sync ==
    /\ ~panicked
    /\ pc["sync"] = "idle"
    /\ pc' = [pc EXCEPT !["sync"] = "fetch"]
    /\ response' = NoResponse
    /\ UNCHANGED <<store, fs, returned, stopChan, panicked, now, nextRun, ticks, interval, riskVars, page>>

(***************************************************************************)
(* Periodic scheduler: StartPeriodicFetch, Stop, calculateNext2HourMark    *)
(***************************************************************************)
MaxTicks == 4

\* Variant: the hour wraps to 0 but the day does not advance
NextMarkSameDay(t) ==
    Date(DateOf(In(t, wibTimezone)).Y, DateOf(In(t, wibTimezone)).M,
         DateOf(In(t, wibTimezone)).D,
         (((HourOf(In(t, wibTimezone)) \div 2) + 1) * 2) % 24, 0, wibTimezone)

\* Variant: two hours after now, whatever the clock shows
TwoHoursFromNow(t) == Time(t.unix + 2 * Hour, wibTimezone)

\* Variant: the even hour that has begun, so that a boundary that has
\* passed is run late
LastEvenHour(t) ==
    Date(DateOf(In(t, wibTimezone)).Y, DateOf(In(t, wibTimezone)).M,
         DateOf(In(t, wibTimezone)).D,
         (HourOf(In(t, wibTimezone)) \div 2) * 2, 0, wibTimezone)

\* calculateNext2HourMark() at time.Now() = t
calculateNext2HourMark(t) ==
    LET nowWib == In(t, wibTimezone)
        currentHour == HourOf(nowWib)
        nextHour == ((currentHour \div 2) + 1) * 2
        next == Date(DateOf(nowWib).Y, DateOf(nowWib).M, DateOf(nowWib).D,
                     nextHour % 24, 0, wibTimezone)
    IN  IF nextHour >= 24 THEN AddDays(next, 1) ELSE next

\* The values TIDE_DATA_FETCH_INTERVAL may have: not set, and 7200
NotSet == <<"not set">>
IntervalSettings == {NotSet, <<"7","2","0","0">>}

\* getenv(key, fallback)
getenv(setting, fallback) == IF setting = NotSet THEN fallback ELSE setting

\* Extend and GetTidalFetchInterval: strconv.Atoi of the setting, 300 when
\* it is not set and 0 when it is no number, as a number of seconds
GetTidalFetchInterval(setting) ==
    IF AtoiOk(getenv(setting, <<"3","0","0">>))
    THEN Atoi(getenv(setting, <<"3","0","0">>)) ELSE 0

\* Variant: the loop sleeps for the interval
NextRunAfterInterval(t, d) == Time(t.unix + d \div 60, wibTimezone)

\* nextRun := calculateNext2HourMark(): the interval is not used
NextRunOfLoop(t, d) == calculateNext2HourMark(t)

\* app.TidalFetcher.StartPeriodicFetch(app.Cfg.GetTidalFetchInterval()): two
\* goroutines are started
StartPeriodicFetch ==
    /\ ~panicked
    /\ pc["init"] = "notStarted"
    /\ pc' = [pc EXCEPT !["init"] = "spawned", !["loop"] = "calc"]
    /\ \E setting \in IntervalSettings : interval' = GetTidalFetchInterval(setting)
    /\ UNCHANGED <<store, fs, returned, stopChan, panicked, now, nextRun, ticks, riskVars, page, response>>

\* The first goroutine: FetchAndStore at once
InitialFetch ==
    /\ ~panicked
    /\ pc["init"] = "spawned"
    /\ pc' = [pc EXCEPT !["init"] = "fetch"]
    /\ UNCHANGED <<store, fs, returned, stopChan, panicked, now, nextRun, ticks, interval, riskVars, page, response>>

\* The loop: nextRun := calculateNext2HourMark(); sleepDuration := time.Until(nextRun)
LoopSchedule ==
    /\ ~panicked
    /\ pc["loop"] = "calc"
    /\ nextRun' = NextRunOfLoop(now, interval)
    /\ pc' = [pc EXCEPT !["loop"] = "select"]
    /\ UNCHANGED <<store, fs, returned, stopChan, panicked, now, ticks, interval, riskVars, page, response>>

\* time.After(sleepDuration) has fired: sleepDuration after it was armed,
\* which is at nextRun
TimerReady == now.unix >= nextRun.unix

\* select, case <-time.After(sleepDuration): FetchAndStore
LoopTimerCase ==
    /\ ~panicked
    /\ pc["loop"] = "select"
    /\ TimerReady
    /\ pc' = [pc EXCEPT !["loop"] = "fetch"]
    /\ UNCHANGED <<store, fs, returned, stopChan, panicked, now, nextRun, ticks, interval, riskVars, page, response>>

\* select, case <-f.stopChan: return
LoopStopCase ==
    /\ ~panicked
    /\ pc["loop"] = "select"
    /\ stopChan = "closed"
    /\ pc' = [pc EXCEPT !["loop"] = "stopped"]
    /\ UNCHANGED <<store, fs, returned, stopChan, panicked, now, nextRun, ticks, interval, riskVars, page, response>>

\* Stop(): close(f.stopChan); closing a closed channel panics, which ends
\* the process and with it every transaction in progress
Stop ==
    /\ ~panicked
    /\ pc["init"] # "notStarted"
    /\ IF stopChan = "open"
       THEN /\ stopChan' = "closed"
            /\ UNCHANGED <<store, pc, fs, panicked>>
       ELSE /\ panicked' = TRUE
            /\ store' = store
            /\ pc' = [p \in Procs |-> "dead"]
            /\ fs' = [p \in Procs |-> NoCall]
            /\ UNCHANGED stopChan
    /\ UNCHANGED <<returned, now, nextRun, ticks, interval, riskVars, page, response>>

\* Time passes
Tick ==
    /\ ~panicked
    /\ ticks < MaxTicks
    /\ ticks' = ticks + 1
    /\ now' = Time(now.unix + Hour, now.zone)
    /\ UNCHANGED <<store, pc, fs, returned, stopChan, panicked, nextRun, interval, riskVars, page, response>>

(***************************************************************************)
(* The ingestion pipeline                                                  *)
(***************************************************************************)
\* The process's start times: 01:15, 02:00 and 23:10 WIB on December 4, 2025
StartTimes ==
    {In(Date(2025, 12, 4, 1, 15, wibTimezone), UTC),
     In(Date(2025, 12, 4, 2, 0, wibTimezone), UTC),
     In(Date(2025, 12, 4, 23, 10, wibTimezone), UTC)}

\* The rows that the batch of a document leaves in the table when who has
\* created them
BatchRows(who, doc) ==
    {[Fetched[doc].tideData[i] EXCEPT !.ID = NewULID(who, i)] :
        i \in 1..Len(Fetched[doc].tideData)}

\* What an earlier run of the program left in the table: nothing, or the
\* batch of its last scrape
EarlierRows == BatchRows("earlier", DocDec4)

NoAlert == [Effective |-> ZeroTime, Expires |-> ZeroTime, Description |-> <<>>]
NoVerdict == [none |-> TRUE]
NoShown == <<>>

InitRiskIdle ==
    /\ alert = NoAlert
    /\ dbOk = TRUE
    /\ verdict = NoVerdict
    /\ queried = FALSE
    /\ shown = NoShown

InitFetcher ==
    /\ pc = [p \in Procs |-> IF p = "sync" THEN "idle" ELSE "notStarted"]
    /\ fs = [p \in Procs |-> NoCall]
    /\ returned = NoResult
    /\ stopChan = "open"
    /\ panicked = FALSE
    /\ response = NoResponse
    /\ nextRun = ZeroTime
    /\ ticks = 0
    /\ interval = NoInterval

\* The start-up fetch and Sync requests against the table, the page serving
\* any of the documents
Init ==
    /\ store \in {{}, EarlierRows}
    /\ InitFetcher
    /\ now = In(Date(2025, 12, 4, 1, 15, wibTimezone), UTC)
    /\ InitRiskIdle
    /\ page = DocDec4

Next ==
    \/ StartPeriodicFetch
    \/ InitialFetch
    \/ Sync
    \/ \E p \in {"init", "sync"} : FetchAndStore(p, Documents)

Spec == Init /\ [][Next]_vars

\* The scheduler: the start-up fetch, the loop, Stop and the clock, the page
\* being down or serving one of two tables
SchedDocuments == {DocUnreachable, DocDec4, DocDec5}

InitSched ==
    /\ store \in {{}, EarlierRows}
    /\ InitFetcher
    /\ now \in StartTimes
    /\ InitRiskIdle
    /\ page = DocDec4

NextSched ==
    \/ StartPeriodicFetch
    \/ InitialFetch
    \/ LoopSchedule
    \/ LoopTimerCase
    \/ LoopStopCase
    \/ Stop
    \/ Tick
    \/ \E p \in {"init", "loop"} : FetchAndStore(p, SchedDocuments)

SpecSched == InitSched /\ [][NextSched]_vars

\* The goroutines run: the loop computes its deadline, a started
\* FetchAndStore goes on to its return, and a select that finds stopChan
\* closed takes a ready case
SchedFairness ==
    /\ WF_vars(LoopSchedule)
    /\ WF_vars(LoopStopCase)
    /\ \A p \in {"init", "loop"} : WF_vars(FetchAndStore(p, SchedDocuments))

SpecSchedFair == InitSched /\ [][NextSched]_vars /\ SchedFairness

(***************************************************************************)
(* The scraper against tables of good and malformed rows                   *)
(***************************************************************************)
MaxRows == 3

\* The rows a table is made of: two well-formed rows, a row of an unknown
\* kind, one with a bad time, one with a bad height and one of two cells
ParseRows ==
    {<<CellHigh, T0312, H28>>, <<CellLow, T0945, H04>>,
     <<CellSlack, T1530, H27>>, <<CellHigh, TBadDash, H28>>,
     <<CellLow, T2210, HBogus>>, <<CellHigh, T0312>>}

RECURSIVE RowSeqs(_)
RowSeqs(n) ==
    IF n = 0 THEN {<<>>}
    ELSE RowSeqs(n - 1) \cup {Append(t, r) : t \in RowSeqs(n - 1), r \in ParseRows}

\* No tr at all; a first tr of th cells and up to MaxRows rows; a first tr
\* of td cells and up to one row
ParseTables ==
    {<<>>} \cup {<<HeadRow>> \o t : t \in RowSeqs(MaxRows)}
           \cup {<<<<CellHigh, T1530, H29>>>> \o t : t \in RowSeqs(1)}

ParseHeader == HeaderDec4
ParseDocuments ==
    {Document(TRUE, 200, TRUE, <<ParseHeader>>, trs) : trs \in ParseTables}

FetchAndStorePage(p) ==
    FetchPage(p) \/ TxDelete(p) \/ TxCreate(p) \/ TxCommit(p) \/ TxFail(p)

InitParse ==
    /\ store = {}
    /\ InitFetcher
    /\ now = In(Date(2025, 12, 4, 1, 15, wibTimezone), UTC)
    /\ InitRiskIdle
    /\ page \in ParseDocuments

NextParse == Sync \/ FetchAndStorePage("sync")

SpecParse == InitParse /\ [][NextParse]_vars

(***************************************************************************)
(* The scraper against headers of several days                             *)
(***************************************************************************)
\* Headers of an ordinary day, a day written in lower case with a leading
\* zero, a leap day and a New Year's day; a day that does not exist and a
\* header with no date
DateHeaders ==
    {HeaderDec4, HeaderDec5, HeaderFeb29, HeaderJan1, HeaderBadDay, HeaderNoDate}

\* Tables of rows that are all accepted, with clock times on both sides of
\* 07:00 WIB
DateTables ==
    {<<HeadRow, <<CellHigh, T0312, H28>>, <<CellLow, T0945, H04>>>>,
     <<HeadRow, <<CellLow, T0659, H04>>, <<CellHigh, T0700, H27>>>>,
     <<HeadRow, <<CellHigh, T0000, H29>>, <<CellLow, T2210, H04>>>>}

DateDocuments ==
    {Document(TRUE, 200, TRUE, <<h>>, trs) : h \in DateHeaders, trs \in DateTables}

\* A row of the table for another station on December 4, which no cycle of
\* this program writes
OtherStationRows ==
    {[TideData(NewULID("earlier", 3), Date(2025, 12, 4, 0, 0, UTC), TideTypeHigh,
               In(Date(2025, 12, 4, 11, 0, wibTimezone), UTC), 280, 920)
         EXCEPT !.Location = "Batu Ampar"]}

InitDate ==
    /\ store \in {{}, EarlierRows, EarlierRows \cup OtherStationRows}
    /\ InitFetcher
    /\ now = In(Date(2025, 12, 4, 1, 15, wibTimezone), UTC)
    /\ InitRiskIdle
    /\ page \in DateDocuments

NextDate == Sync \/ FetchAndStorePage("sync")

SpecDate == InitDate /\ [][NextDate]_vars

(***************************************************************************)
(* The synchronizer step against the values Fetch's signature allows       *)
(***************************************************************************)
\* What the part of FetchAndStore after Fetch may be handed: the batches of
\* two days, an error, and an empty batch without an error, which Fetch
\* itself does not return
BatchInputs ==
    {Fetched[DocDec4], Fetched[DocDec4Later], Fetched[DocDec5], Fetched[DocNoRows],
     FetchResult(<<>>, Date(2025, 12, 4, 0, 0, UTC), NoErr)}

\* FetchAndStore from the return of Fetch on, with one of these values
StoreBatch(p) ==
    /\ ~panicked
    /\ pc[p] = "fetch"
    /\ \E r \in BatchInputs : AfterFetch(p, r)
    /\ UNCHANGED <<store, stopChan, panicked, now, nextRun, ticks, interval, riskVars, page>>

InitBatch ==
    /\ store \in {{}, EarlierRows}
    /\ InitFetcher
    /\ now = In(Date(2025, 12, 4, 1, 15, wibTimezone), UTC)
    /\ InitRiskIdle
    /\ page = DocDec4

NextBatch ==
    \/ Sync
    \/ StoreBatch("sync")
    \/ TxDelete("sync") \/ TxCreate("sync") \/ TxCommit("sync") \/ TxFail("sync")

SpecBatch == InitBatch /\ [][NextBatch]_vars

(***************************************************************************)
(* The scraper against the texts of one cell                               *)
(***************************************************************************)
\* Clock texts: two numbers and a colon, with and without a leading zero,
\* a sign or a value past the clock's range; no colon, two colons, a
\* 12-hour marker, letters, a missing part, a space inside, nothing
ClockTexts ==
    {T0312, T0945, T2210, TLate, TPlus, TMinus,
     TBadDash, TNoColon, TBadSecs, TBadPM, TAm, TWords, TNoMinute, TNoHour,
     TInnerSpace, <<>>}

\* Height texts: metres and feet, negative, without spaces, inside other
\* text, without a whole part; no pattern, no feet, feet and metres
\* swapped, a numeral of two dots, a numeral that is a dot
HeightTexts ==
    {H11, H28, H29, HNeg, HInText, HNoWhole,
     HBogus, HNoFeet, HSwapped, HTwoDots, HDotFeet}

\* Tables of a header row and one High row
CellDocuments ==
    {Document(TRUE, 200, TRUE, <<HeaderDec4>>, <<HeadRow, <<CellHigh, t, H28>>>>) :
        t \in ClockTexts}
    \cup {Document(TRUE, 200, TRUE, <<HeaderDec4>>, <<HeadRow, <<CellHigh, T0312, h>>>>) :
             h \in HeightTexts}

InitCell ==
    /\ store \in {{}, EarlierRows}
    /\ InitFetcher
    /\ now = In(Date(2025, 12, 4, 1, 15, wibTimezone), UTC)
    /\ InitRiskIdle
    /\ page \in CellDocuments

NextCell == Sync \/ FetchAndStorePage("sync")

SpecCell == InitCell /\ [][NextCell]_vars

(***************************************************************************)
(* The risk correlator against a table of tide rows                        *)
(***************************************************************************)
MaxStoreRows == 2

\* The alert's window: 10:00 to 13:00 WIB on December 4, 2025
AlertEffective == Date(2025, 12, 4, 10, 0, wibTimezone)
AlertExpires == Date(2025, 12, 4, 13, 0, wibTimezone)

DescHeavyRain == <<"H","e","a","v","y"," ","R","a","i","n"," ","w","i","t","h"," ","w","i","n","d">>
DescHeavyRainfall == <<"s","t","o","r","m",","," ","H","E","A","V","Y"," ","R","A","I","N","F","A","L","L">>
DescLowerRain == <<"h","e","a","v","y"," ","r","a","i","n">>
DescLightRain == <<"L","i","g","h","t"," ","r","a","i","n">>
DescHeavySnow == <<"h","e","a","v","y"," ","s","n","o","w",","," ","r","a","i","n">>
DescTwoSpaces == <<"h","e","a","v","y"," "," ","r","a","i","n">>
DescEmpty == <<>>

\* The descriptions with the words "heavy rain", in any case, and the others
RainDescriptions == {DescHeavyRain, DescHeavyRainfall, DescLowerRain}
DryDescriptions == {DescLightRain, DescHeavySnow, DescTwoSpaces, DescEmpty}

AlertDetail(effective, expires, description) ==
    [Effective |-> effective, Expires |-> expires, Description |-> description]

Alerts ==
    {AlertDetail(AlertEffective, AlertExpires, d) :
        d \in RainDescriptions \cup DryDescriptions}

\* Tide times around the window, as minutes after alert.Effective: a minute
\* before it, its start, inside it, its end, a minute after its end, inside
\* the buffer, the end of the buffer, a minute after the buffer
RowOffsets == {0 - 1, 0, Hour, 3 * Hour, 3 * Hour + 1, 4 * Hour, 5 * Hour, 5 * Hour + 1}

\* Heights of the rows, in hundredths of a metre
RowHeights == {260, 270, 290}

\* The rows earlier cycles may have left in the table: tide times are stored
\* in UTC, the date is the day's midnight in UTC
RiskRow(tideType, offset, heightM) ==
    TideData(NewULID("earlier", <<tideType, offset, heightM>>),
             Date(2025, 12, 4, 0, 0, UTC), tideType,
             Time(AlertEffective.unix + offset, UTC), heightM, 0)

RiskRows ==
    {RiskRow(TideTypeHigh, o, h) : o \in RowOffsets, h \in RowHeights}
        \cup {RiskRow(TideTypeLow, o, 290) : o \in RowOffsets}

\* The tables of at most n of these rows
RECURSIVE Tables(_)
Tables(n) ==
    IF n = 0 THEN {{}}
    ELSE Tables(n - 1) \cup {rows \cup {row} : rows \in Tables(n - 1), row \in RiskRows}

\* calculateTidalFloodRisk(db, alert, timezone) for an alert of the feed
Assess ==
    /\ \E a \in Alerts, ok \in BOOLEAN :
          \E out \in calculateTidalFloodRisk(store, ok, a, now) :
              /\ alert' = a
              /\ dbOk' = ok
              /\ verdict' = out.risk
              /\ queried' = out.queried
              /\ store' = IF out.queried THEN StoreAfterFind(store, a) ELSE store
    /\ UNCHANGED <<fetcherVars, page, response, shown>>

\* GET of the alert endpoint, the feed holding one alert of the province:
\* the verdict is computed and the JSON or the card is written
Index ==
    /\ \E a \in Alerts, ok \in BOOLEAN, asCard \in CardModes :
          \E out \in calculateTidalFloodRisk(store, ok, a, now) :
              /\ alert' = a
              /\ dbOk' = ok
              /\ verdict' = out.risk
              /\ queried' = out.queried
              /\ store' = IF out.queried THEN StoreAfterFind(store, a) ELSE store
              /\ shown' = IndexResponse(asCard, a, wibTimezone, out.risk)
    /\ UNCHANGED <<fetcherVars, page, response>>

\* The endpoint against tables of at most one row
InitShow ==
    /\ store \in Tables(1)
    /\ InitFetcher
    /\ now = In(Date(2025, 12, 4, 9, 30, wibTimezone), UTC)
    /\ InitRiskIdle
    /\ page = DocDec4

NextShow == Index

SpecShow == InitShow /\ [][NextShow]_vars

InitRisk ==
    /\ store \in Tables(MaxStoreRows)
    /\ InitFetcher
    /\ now = In(Date(2025, 12, 4, 9, 30, wibTimezone), UTC)
    /\ InitRiskIdle
    /\ page = DocDec4

NextRisk == Assess

SpecRisk == InitRisk /\ [][NextRisk]_vars

(***************************************************************************)
(* Properties of the tide store synchronizer (under Spec)                  *)
(***************************************************************************)
\* The documents Fetch accepts, the days they are for, and who writes rows
GoodDocuments == {doc \in Documents : Fetched[doc].err = NoErr}
Days == {Fetched[doc].date : doc \in GoodDocuments}
Writers == Procs \cup {"earlier"}

\* What a reader gets for (TideLocation, date): the committed rows
ReaderSees(date) == Partition(store, TideLocation, date)

\* rows are all the rows of one scrape, created by one call, and no others
CompleteBatch(rows) ==
    \E who \in Writers, doc \in GoodDocuments : rows = BatchRows(who, doc)

OneBatchPerDay ==
    \A date \in Days : ReaderSees(date) = {} \/ CompleteBatch(ReaderSees(date))

NeverEmptied ==
    \A date \in Days :
        Partition(store, TideLocation, date) # {}
            => Partition(store', TideLocation, date) # {}

\* C1: at every moment a reader sees, for each (location, date), nothing (no
\* scrape of that day was ever stored) or exactly the complete batch of one
\* scrape, and a day that has rows is never seen without rows: not empty
\* mid-replace, not partially inserted, not a mixture of two scrapes.
C1_ReaderSeesOneCompleteBatch == []OneBatchPerDay /\ [][NeverEmptied]_vars

\* C1 witness: a replace is in flight, its DELETE done and some but not all
\* of its rows created, while the reader still sees the whole earlier batch
C1_ReplaceInFlight ==
    \E p \in Procs :
        /\ pc[p] = "tx"
        /\ fs[p].deleted
        /\ 0 < fs[p].count
        /\ fs[p].count < Len(fs[p].tideData)
        /\ ReaderSees(fs[p].date) = EarlierRows

\* p's call leaves its transaction in this step
LeavesTx(p) == pc[p] = "tx" /\ pc'[p] # "tx"
\* p's transaction executes a statement in this step
TxStatement(p) == pc[p] = "tx" /\ pc'[p] = "tx" /\ fs'[p] # fs[p]

FailedReplaceRollsBack ==
    \A p \in Procs :
        /\ TxStatement(p) => store' = store
        /\ (LeavesTx(p) /\ returned'.err # NoErr)
              => /\ store' = store
                 /\ returned' = Result(p, 0, returned'.err)
                 /\ returned'.err \in {ErrDelete, ErrInsert, ErrCommit}

\* C2: when the DELETE or a Create of the replace fails, also after the
\* DELETE succeeded and some rows were created, the store is what it was
\* before the call touched it (no statement of the call and not its failure
\* changes what is stored) and FetchAndStore returns 0 and the error.
C2_FailedReplaceLeavesStore == [][FailedReplaceRollsBack]_vars

\* C2 witness: a Create has failed, the call returned 0 with the error, and
\* the earlier batch is stored as before
C2_InsertFailed ==
    /\ returned.err = ErrInsert
    /\ returned.count = 0
    /\ store = EarlierRows

\* The documents that fail at document level, with the error of each
DocumentFailures ==
    {<<DocUnreachable, ErrFetch>>, <<DocStatus500, ErrStatus>>,
     <<DocUnreadable, ErrHTML>>, <<DocNoHeader, ErrNoHeader>>,
     <<DocNoDate, ErrDate>>, <<DocBadMonth, ErrDate>>, <<DocBadDay, ErrDate>>,
     <<DocNoRows, ErrNoData>>, <<DocOnlyBadRows, ErrNoData>>}
DocumentErrors == {f[2] : f \in DocumentFailures}

FailuresAreErrors ==
    \A f \in DocumentFailures : Fetched[f[1]] = FetchResult(<<>>, ZeroTime, f[2])

\* The step in which p's call is done with Fetch: it opens the transaction
\* with the batch of a document Fetch accepted, or it returns
AfterFetchStep ==
    \A p \in Procs :
        (pc[p] = "fetch" /\ pc'[p] # "fetch")
            => /\ store' = store
               /\ IF pc'[p] = "tx"
                  THEN \E doc \in GoodDocuments :
                          /\ fs'[p].tideData = Fetched[doc].tideData
                          /\ fs'[p].date = Fetched[doc].date
                          /\ ~fs'[p].deleted
                          /\ fs'[p].count = 0
                  ELSE /\ returned' = Result(p, 0, returned'.err)
                       /\ returned'.err \in DocumentErrors
                       /\ fs'[p] = NoCall

\* C8: a transport error, a status other than 200, an unreadable document, a
\* missing header, an unparsable date and a table without an accepted row
\* each make Fetch fail; a call whose Fetch fails returns 0 and that error
\* without opening the transaction (no DELETE, no Create), and the store
\* is the same before and after.
C8_DocumentFailureTouchesNothing == []FailuresAreErrors /\ [][AfterFetchStep]_vars

\* C8 witness: a call has returned the missing-header error, no transaction
\* is open, and the earlier batch is stored as before
C8_HeaderMissing ==
    /\ returned.err = ErrNoHeader
    /\ returned.count = 0
    /\ \A p \in Procs : pc[p] # "tx"
    /\ store = EarlierRows

(***************************************************************************)
(* Properties of the risk correlator (under SpecRisk)                      *)
(***************************************************************************)
\* calculateTidalFloodRisk has returned a verdict for alert
Assessed == verdict # NoVerdict
\* The alert's description has the words "heavy rain", in any case
RainAlert == alert.Description \in RainDescriptions

\* The qualifying observations: High, more than 2.6 m, from alert.Effective
\* to two hours after alert.Expires, both ends included
Qualifying ==
    {row \in store :
        /\ row.TideType = "high"
        /\ row.HeightM > 260
        /\ row.TideTime.unix >= alert.Effective.unix
        /\ row.TideTime.unix <= alert.Expires.unix + 2 * 60}

\* The qualifying observations of the greatest height
Highest == {row \in Qualifying : \A other \in Qualifying : other.HeightM <= row.HeightM}

\* The verdict's peak tide is this observation
Cites(row) ==
    /\ verdict.TideType = row.TideType
    /\ verdict.TideTime = row.TideTime
    /\ verdict.TideHeightM = row.HeightM

\* C3: with heavy rain in the description and a qualifying observation, the
\* verdict has hasRisk true and is about a highest qualifying observation:
\* High when that one is at or before alert.Expires, Moderate when it is
\* after alert.Expires.
C3_HighUntilExpiresThenModerate ==
    (Assessed /\ RainAlert /\ dbOk /\ Qualifying # {})
        => \E row \in Highest :
              /\ Cites(row)
              /\ verdict.HasRisk
              /\ verdict.RiskLevel =
                    IF row.TideTime.unix <= alert.Expires.unix
                    THEN "high" ELSE "moderate"

\* C3 witness: the only qualifying tide is exactly at alert.Expires and the
\* verdict is High
C3_HighExactlyAtExpires ==
    /\ Assessed /\ RainAlert /\ dbOk
    /\ Qualifying # {}
    /\ \A row \in Qualifying : row.TideTime.unix = alert.Expires.unix
    /\ verdict.RiskLevel = "high"

\* C4: without "heavy rain" in the description, in any case of letters, the
\* verdict is hasRisk false, level None, heavy rain not detected, whatever
\* the table holds, and the table is not queried, so that a database that
\* cannot answer makes no difference.
C4_NoHeavyRainNoQuery ==
    (Assessed /\ ~RainAlert)
        => /\ ~verdict.HasRisk
           /\ verdict.RiskLevel = "none"
           /\ ~verdict.HeavyRain
           /\ ~queried

\* C4 witness: a light-rain alert, a qualifying tide in the table, a
\* database that would not answer, and the verdict None
C4_LightRainDatabaseDown ==
    /\ Assessed
    /\ alert.Description = DescLightRain
    /\ ~dbOk
    /\ Qualifying # {}
    /\ verdict.RiskLevel = "none"

C7_PeakIsHighestQualifying ==
    (Assessed /\ RainAlert /\ dbOk /\ Qualifying # {})
        => /\ \E row \in Qualifying : Cites(row)
           /\ \A row \in Qualifying : row.HeightM <= verdict.TideHeightM

\* C7 witness: qualifying tides of 2.7 m and 2.9 m, the verdict cites 2.9 m
C7_TwoQualifyingTides ==
    /\ Assessed /\ RainAlert /\ dbOk
    /\ {row.HeightM : row \in Qualifying} = {270, 290}
    /\ verdict.TideHeightM = 290

(***************************************************************************)
(* Properties of the periodic scheduler (under SpecSched)                  *)
(***************************************************************************)
\* The goroutines StartPeriodicFetch starts
SchedulerProcs == {"init", "loop"}

\* p begins an ingestion cycle in this step: it enters FetchAndStore
BeginsCycle(p) == pc[p] # "fetch" /\ pc'[p] = "fetch"

NoCycleBeginsAfterStop ==
    stopChan = "closed" => \A p \in SchedulerProcs : ~BeginsCycle(p)

\* C9: once Stop has been called no new ingestion cycle begins, neither the
\* start-up cycle nor a boundary cycle, whatever the interleaving; a cycle
\* that had begun before may go on.
C9_NoCycleBeginsAfterStop == [][NoCycleBeginsAfterStop]_vars

\* t is a 2-hour boundary of UTC+7: 00:00, 02:00, 04:00, ... local time
IsBoundary(t) == (t.unix + 7 * 60) % (2 * 60) = 0

\* The loop fixes its next deadline in this step
FixesDeadline == pc["loop"] = "calc" /\ pc'["loop"] = "select"

\* The start-up cycle waits for nothing, and when the loop waits and its
\* deadline has come while Stop has not been called, the one thing the loop
\* does is begin a cycle
CyclesAreDue ==
    /\ pc["init"] = "spawned" => ENABLED InitialFetch
    /\ (pc["loop"] = "select" /\ stopChan = "open" /\ now.unix >= nextRun.unix)
          => (ENABLED LoopTimerCase /\ ~ENABLED LoopStopCase)

\* StartPeriodicFetch starts both goroutines; every deadline of the loop is
\* the first boundary after the time at which the loop fixes it; the loop
\* begins a cycle only when its deadline has come
CyclesAtBoundaries ==
    /\ (pc["init"] = "notStarted" /\ pc'["init"] # "notStarted")
          => (pc'["init"] = "spawned" /\ pc'["loop"] = "calc")
    /\ FixesDeadline
          => /\ IsBoundary(nextRun')
             /\ now.unix < nextRun'.unix
             /\ nextRun'.unix <= now.unix + 2 * 60
    /\ BeginsCycle("loop") => (IsBoundary(nextRun) /\ now.unix >= nextRun.unix)

\* C10, as amended: after StartPeriodicFetch the start-up cycle can begin at
\* once; the loop waits for the first 2-hour boundary of UTC+7 after the
\* time at which it starts to wait (a fixed clock time, not an offset from
\* the start of the process) and, while Stop has not been called, begins a
\* cycle when that boundary has come; a boundary that passes while the
\* loop's previous cycle is still running gets no cycle.
C10_CycleAtEachAwaitedBoundary == []CyclesAreDue /\ [][CyclesAtBoundaries]_vars

\* C10 witness: started at 23:10, the start-up cycle has begun and the loop
\* has begun the cycle of the boundary 00:00 of the next day, Stop not called
C10_MidnightCycleBegun ==
    /\ pc["init"] \in {"fetch", "tx", "done"}
    /\ pc["loop"] = "fetch"
    /\ nextRun = Date(2025, 12, 5, 0, 0, wibTimezone)
    /\ stopChan = "open"

\* The deadline the loop fixes is the boundary after its previous deadline
NoBoundarySkipped ==
    (FixesDeadline /\ stopChan = "open" /\ nextRun # ZeroTime)
        => nextRun'.unix = nextRun.unix + 2 * 60

\* C10 as stated: as above, and while Stop has not been called a cycle
\* begins at every 2-hour boundary, so that the boundaries of successive
\* cycles of the loop are two hours apart.
C10_CycleAtEveryBoundary ==
    /\ []CyclesAreDue
    /\ [][CyclesAtBoundaries]_vars
    /\ [][NoBoundarySkipped]_vars

(***************************************************************************)
(* calculateNext2HourMark over the clock (under SpecMark)                  *)
(***************************************************************************)
\* Days on which the process may start: an ordinary day, the last day of a
\* year, the last two days of February in a leap year
MarkDays == {<<2025, 12, 4>>, <<2025, 12, 31>>, <<2024, 2, 28>>, <<2024, 2, 29>>}
MarkMinutes == {0, 1, 10, 15, 59}
\* The zone in which time.Now() reports the time: UTC, WIB, UTC-5
MarkZones == {UTC, wibTimezone, 0 - 5 * Hour}

\* The process starts at any of these local times and the loop fixes its
\* first deadline
InitMark ==
    /\ store = {}
    /\ InitFetcher
    /\ now \in {In(Date(d[1], d[2], d[3], h, m, wibTimezone), z) :
                    d \in MarkDays, h \in 0..23, m \in MarkMinutes, z \in MarkZones}
    /\ InitRiskIdle
    /\ page = DocDec4

NextMark == StartPeriodicFetch \/ LoopSchedule

SpecMark == InitMark /\ [][NextMark]_vars

\* Minutes since 1970-01-01 00:00 of the UTC+7 wall clock at instant t
LocalMinutes(t) == t.unix + 7 * 60
\* hour(t) of the UTC+7 wall clock
LocalHour(t) == (LocalMinutes(t) % (24 * 60)) \div 60
\* Day number of the UTC+7 calendar day of t
LocalDay(t) == LocalMinutes(t) \div (24 * 60)
\* The hour to run at: 2 * (floor(hour(t) / 2) + 1)
MarkHour(t) == 2 * ((LocalHour(t) \div 2) + 1)

\* C11: for the local time t at which the loop calls calculateNext2HourMark,
\* the result is minute 0 of local hour 2*(floor(hour(t)/2)+1), on t's local
\* day when that hour is below 24 and at 00:00 of the next local day when
\* it is 24; it is later than t, at most two hours later, on an even hour.
C11_NextMarkIsNextEvenHour ==
    pc["loop"] = "select"
        => /\ LocalMinutes(nextRun) = LocalDay(now) * 24 * 60 + MarkHour(now) * 60
           /\ LocalDay(nextRun) = LocalDay(now) + (IF MarkHour(now) < 24 THEN 0 ELSE 1)
           /\ LocalHour(nextRun) = MarkHour(now) % 24
           /\ nextRun.unix > now.unix
           /\ nextRun.unix <= now.unix + 2 * 60
           /\ LocalMinutes(nextRun) % (2 * 60) = 0

\* C11 witness: at 23:10 on December 31, 2025 the next mark is 00:00 on
\* January 1, 2026
C11_NewYearMark ==
    /\ pc["loop"] = "select"
    /\ now.unix = Date(2025, 12, 31, 23, 10, wibTimezone).unix
    /\ nextRun = Date(2026, 1, 1, 0, 0, wibTimezone)

(***************************************************************************)
(* Failure policy of the scheduler (under SpecSched)                       *)
(***************************************************************************)
\* p's FetchAndStore returns in this step
Returns(p) == pc[p] \in {"fetch", "tx"} /\ pc'[p] \notin {"fetch", "tx", "dead"}

\* The loop goes on to fix its next deadline whatever its cycle returned, and
\* is not touched by the return of the start-up cycle; a cycle begins only
\* at start-up or from the wait when the deadline has come (no retry); the
\* deadline fixed after a return is the first boundary after that time
FailurePolicy ==
    /\ Returns("loop") => pc'["loop"] = "calc"
    /\ Returns("init") => (pc'["init"] = "done" /\ pc'["loop"] = pc["loop"])
    /\ BeginsCycle("init") => pc["init"] = "spawned"
    /\ BeginsCycle("loop") => (pc["loop"] = "select" /\ now.unix >= nextRun.unix)
    /\ (FixesDeadline /\ returned.err # NoErr)
          => /\ IsBoundary(nextRun')
             /\ now.unix < nextRun'.unix
             /\ nextRun'.unix <= now.unix + 2 * 60

\* The loop ends only when Stop has been called, and after a failed cycle
\* the waiting loop begins a cycle once its deadline has come
RunsAfterFailure ==
    /\ pc["loop"] = "stopped" => stopChan = "closed"
    /\ (returned.err # NoErr /\ pc["loop"] = "select" /\ stopChan = "open"
            /\ now.unix >= nextRun.unix)
          => ENABLED LoopTimerCase

\* C12: a cycle that fails, with whatever error, leaves the scheduler
\* running: the loop goes on to wait for the first boundary after the
\* failure and, Stop not being called, begins a cycle when it has come; the
\* failed cycle is not retried before; nothing counts the failures.
C12_FailedCycleLeavesSchedulerRunning == []RunsAfterFailure /\ [][FailurePolicy]_vars

\* C12 witness: the loop's cycle of 02:00 failed, and the loop has begun the
\* cycle of 04:00
C12_CycleAfterFailedCycle ==
    /\ returned = Result("loop", 0, ErrFetch)
    /\ pc["loop"] = "fetch"
    /\ nextRun = Date(2025, 12, 4, 4, 0, wibTimezone)
    /\ stopChan = "open"

(***************************************************************************)
(* Writers of one partition (under Spec)                                   *)
(***************************************************************************)
\* p's transaction has run its DELETE and has not ended
Replacing(p) == pc[p] = "tx" /\ fs[p].deleted

\* No two transactions are between DELETE and end on the same date
WritersExcluded ==
    \A p \in Procs : \A q \in Procs \ {p} :
        ~(Replacing(p) /\ Replacing(q) /\ fs[p].date.unix = fs[q].date.unix)

\* All rows were created by one call
OneWriter(rows) == \A r1 \in rows : \A r2 \in rows : r1.ID[1] = r2.ID[1]

\* While p is between DELETE and end, no other step changes what is stored
\* for p's date and no other transaction runs a statement on it; when p commits,
\* its partition holds its batch, each row once, and no other row
ReplaceUninterleaved ==
    \A p \in Procs :
        /\ (Replacing(p) /\ pc'[p] = pc[p] /\ fs'[p] = fs[p])
              => /\ Partition(store', TideLocation, fs[p].date)
                       = Partition(store, TideLocation, fs[p].date)
                 /\ \A q \in Procs \ {p} :
                       (TxStatement(q) /\ fs[q].date.unix = fs[p].date.unix) => FALSE
        /\ (LeavesTx(p) /\ returned'.err = NoErr)
              => /\ Partition(store', TideLocation, fs[p].date)
                       = {[fs[p].tideData[i] EXCEPT !.ID = <<p, i>>] :
                              i \in 1..Len(fs[p].tideData)}
                 /\ OneWriter(Partition(store', TideLocation, fs[p].date))
                 /\ Cardinality(Partition(store', TideLocation, fs[p].date))
                       = Len(fs[p].tideData)

StopCalled == stopChan' # stopChan \/ panicked' # panicked

\* The step leaves every call of FetchAndStore in flight, its transaction
\* and the table as they are
CyclesUntouched ==
    /\ \A p \in Procs :
          pc[p] \in {"fetch", "tx"} => (pc'[p] = pc[p] /\ fs'[p] = fs[p])
    /\ store' = store

StopLeavesCyclesAlone == StopCalled => CyclesUntouched

\* C14: a call of Stop changes nothing but the stop signal: it waits for
\* no goroutine, and every FetchAndStore in flight keeps its position and
\* its open transaction, to go on to commit or roll back, at whatever point
\* of the cycle Stop is called.
C14_StopLeavesCyclesAlone == [][StopLeavesCyclesAlone]_vars

\* C15: once Stop has been called, the loop reaches the stopped state,
\* every cycle in flight coming to its end; a loop that waits for a boundary
\* which has not come has no other step to take than to stop.
C15_StopReachesStopped == (stopChan = "closed") ~> (pc["loop"] = "stopped")

\* C16: no sequence of Stop calls crashes the program; a second Stop does
\* nothing or reports an error.
C16_StopNeverPanics == ~panicked

(***************************************************************************)
(* Rows of the table (under SpecParse)                                     *)
(***************************************************************************)
\* The Sync call is done with Fetch in this step
SyncFetched == pc["sync"] = "fetch" /\ pc'["sync"] # "fetch"

\* The kind label holds "high" or "low", in whatever case
KnownKind(label) ==
    Contains(ToLower(label), TextHigh) \/ Contains(ToLower(label), TextLow)

\* tr k of the table is not the header row (the first tr), has three cells,
\* a known kind, a clock time and a height
RowAccepted(trs, k, dateWIB) ==
    /\ k > 1
    /\ Len(trs[k]) = 3
    /\ KnownKind(TrimSpace(trs[k][1]))
    /\ parseTimeWIB(dateWIB, TrimSpace(trs[k][2])).ok
    /\ parseHeight(TrimSpace(trs[k][3])).ok

AcceptedRows(trs, dateWIB) == {k \in 1..Len(trs) : RowAccepted(trs, k, dateWIB)}

\* The j-th of the accepted rows in document order
NthAccepted(acc, j) == CHOOSE k \in acc : Cardinality({m \in acc : m <= k}) = j

\* The observation of an accepted row
ObservationOf(cols, d) ==
    [ID |-> NoID, Location |-> TideLocation, Date |-> d.dateForStorage,
     TideType |-> IF Contains(ToLower(TrimSpace(cols[1])), TextHigh)
                  THEN TideTypeHigh ELSE TideTypeLow,
     TideTime |-> parseTimeWIB(d.dateWIB, TrimSpace(cols[2])).time,
     HeightM |-> parseHeight(TrimSpace(cols[3])).heightM,
     HeightFt |-> parseHeight(TrimSpace(cols[3])).heightFt]

\* The batch is the observations of the accepted rows, in their order
BatchOfAccepted(batch, trs, acc, d) ==
    /\ Len(batch) = Cardinality(acc)
    /\ \A j \in 1..Len(batch) : batch[j] = ObservationOf(trs[NthAccepted(acc, j)], d)

FetchedAccepted(trs, acc, d) ==
    acc # {} => /\ pc'["sync"] = "tx"
                /\ fs'["sync"].date = d.dateForStorage
                /\ BatchOfAccepted(fs'["sync"].tideData, trs, acc, d)

\* The two dates of the header of every page
ParsedHeader == parseTideDate(ParseHeader)

FetchKeepsAcceptedRows ==
    SyncFetched
        => FetchedAccepted(page.trs, AcceptedRows(page.trs, ParsedHeader.dateWIB),
                           ParsedHeader)

\* C17: Fetch returns one observation for each row that is not the header
\* row (the first tr) and has exactly three cells, a kind label holding
\* "high" or "low" in any case, a clock time and a height that parse, in
\* document order; no other row adds anything, and Fetch succeeds when one
\* row at least is accepted, however many are dropped.
C17_MalformedRowsAreDropped == [][FetchKeepsAcceptedRows]_vars

\* C17 witness: of the rows high 03:12, slack, low 9:45 after the header
\* row, Fetch has returned the first and the third
C17_RowBetweenDropped ==
    /\ page.trs = <<HeadRow, <<CellHigh, T0312, H28>>, <<CellSlack, T1530, H27>>,
                    <<CellLow, T0945, H04>>>>
    /\ pc["sync"] = "tx"
    /\ Len(fs["sync"].tideData) = 2
    /\ fs["sync"].tideData[1].TideType = TideTypeHigh
    /\ fs["sync"].tideData[2].TideType = TideTypeLow

FetchedNothing(acc) ==
    acc = {} => /\ pc'["sync"] = "idle"
                /\ returned' = Result("sync", 0, ErrNoData)
                /\ store' = store

EmptyBatchIsError ==
    SyncFetched
        => /\ FetchedNothing(AcceptedRows(page.trs, ParsedHeader.dateWIB))
           /\ pc'["sync"] = "tx" => Len(fs'["sync"].tideData) >= 1

\* C18: with the date header present and no row accepted, whether the table
\* has no row, only its header row or any number of dropped rows, Fetch
\* fails with the no-data error; a Fetch that succeeds has at least one
\* observation.
C18_EmptyBatchIsAnError == [][EmptyBatchIsError]_vars

\* C18 witness: all three rows after the header row were dropped, and the
\* call has returned the no-data error
C18_AllRowsDropped ==
    /\ page.trs = <<HeadRow, <<CellSlack, T1530, H27>>, <<CellHigh, TBadDash, H28>>,
                    <<CellLow, T2210, HBogus>>>>
    /\ returned = Result("sync", 0, ErrNoData)
    /\ pc["sync"] = "idle"

(***************************************************************************)
(* The replace of one day (under Spec)                                     *)
(***************************************************************************)
\* The stored rows of the station for the date
RowsFor(rows, date) ==
    {row \in rows : row.Location = TideLocation /\ row.Date.unix = date.unix}

\* row is the observation data with an ID of its own
StoredAs(row, data) == row.ID # NoID /\ [row EXCEPT !.ID = NoID] = data

\* The rows are those of the batch, each once, and no others
ExactlyBatch(rows, batch) ==
    /\ Cardinality(rows) = Len(batch)
    /\ \A i \in 1..Len(batch) :
          Cardinality({row \in rows : StoredAs(row, batch[i])}) = 1
    /\ \A row \in rows : \E i \in 1..Len(batch) : StoredAs(row, batch[i])

\* What holds when the call with this batch and date returns nil
ReplacedBy(p, batch, date) ==
    /\ returned' = Result(p, Len(batch), NoErr)
    /\ \A i \in 1..Len(batch) :
          batch[i].Location = TideLocation /\ batch[i].Date.unix = date.unix
    /\ ExactlyBatch(RowsFor(store', date), batch)
    /\ store' \ RowsFor(store', date) = store \ RowsFor(store, date)

ReplaceStoresBatch ==
    \A p \in Procs :
        (LeavesTx(p) /\ returned'.err = NoErr)
            => ReplacedBy(p, fs[p].tideData, fs[p].date)

\* C19: when FetchAndStore succeeds with batch B of date D, the stored rows
\* of (TideLocation, D) are the rows of B, each once, and none of those
\* stored before; the count returned is the length of B; every row of B has
\* location TideLocation and date D, and the rows of other days stay.
C19_ReplaceStoresExactlyTheBatch == [][ReplaceStoresBatch]_vars

\* C19 witness: the Sync call has replaced the earlier rows of December 4
\* by the two rows of a later scrape, beside the row of December 5 that the
\* start-up call stored
C19_DayReplacedBesideAnother ==
    /\ returned = Result("sync", 2, NoErr)
    /\ store = BatchRows("sync", DocDec4Later) \cup BatchRows("init", DocDec5)

\* The observations of the rows, whatever their IDs
Observations(rows) == {[row EXCEPT !.ID = NoID] : row \in rows}

\* p commits a batch that is the one an earlier run has left for the date
RunsAgain(p) ==
    /\ LeavesTx(p)
    /\ returned'.err = NoErr
    /\ ExactlyBatch(RowsFor(store, fs[p].date), fs[p].tideData)

SameAfterSecondRun(date) ==
    /\ Observations(RowsFor(store', date)) = Observations(RowsFor(store, date))
    /\ Cardinality(RowsFor(store', date)) = Cardinality(RowsFor(store, date))
    /\ returned'.count = Cardinality(RowsFor(store, date))
    /\ Observations(store') = Observations(store)

SecondRunChangesNothing ==
    \A p \in Procs : RunsAgain(p) => SameAfterSecondRun(fs[p].date)

\* C20: a run of FetchAndStore with the batch and date that the run before
\* it stored leaves the same observations and the same number of rows for
\* the date, and returns the count the first run returned, the number of
\* rows of the batch.
C20_ReplaceIsIdempotent == [][SecondRunChangesNothing]_vars

\* C20 witness: the start-up call has stored the batch of December 4, and
\* the Sync call after it has deleted the day and created the same batch
\* again, ready to commit
C20_SameBatchAgain ==
    /\ pc["init"] = "done"
    /\ store = BatchRows("init", DocDec4)
    /\ pc["sync"] = "tx"
    /\ fs["sync"].tideData = Fetched[DocDec4].tideData
    /\ fs["sync"].deleted
    /\ fs["sync"].count = Len(fs["sync"].tideData)

(***************************************************************************)
(* The Sync handler (under Spec)                                           *)
(***************************************************************************)
\* The rows in the table that the Sync call created
InsertedBySync(rows) == {row \in rows : row.ID # NoID /\ row.ID[1] = "sync"}

\* The handler writes its response in this step
Answers == response' # response /\ response' # NoResponse

\* The answer to a cycle that returned an error, and to one that returned nil
AnswersFailure ==
    /\ response'.status = 500
    /\ DOMAIN response'.body = {"error"}
    /\ response'.body.error = returned'.err
    /\ store' = store

AnswersSuccess ==
    /\ response'.status = 200
    /\ DOMAIN response'.body = {"message", "count"}
    /\ response'.body.count = fs["sync"].count
    /\ response'.body.count
          = Cardinality(InsertedBySync(RowsFor(store', fs["sync"].date)))

\* The handler begins one cycle per request, from idle, and an unanswered
\* request stays unanswered as long as its cycle runs; the response is
\* written in the step in which the request's cycle returns, and tells what
\* it returned
SyncReportsItsCycle ==
    /\ pc'["sync"] = "fetch" => pc["sync"] \in {"idle", "fetch"}
    /\ (pc["sync"] = "idle" /\ pc'["sync"] = "fetch") => response' = NoResponse
    /\ pc'["sync"] \in {"fetch", "tx"} => response' = NoResponse
    /\ Returns("sync")
          => /\ returned'.proc = "sync"
             /\ IF returned'.err # NoErr THEN AnswersFailure ELSE AnswersSuccess
    /\ Answers => Returns("sync")

\* C21: a Sync request runs one cycle and is answered when that cycle has
\* returned and not before: with status 500, the error's text and no count
\* when the cycle failed, and with the count of the rows the cycle inserted
\* when it succeeded.
C21_SyncReportsItsCycle == [][SyncReportsItsCycle]_vars

\* C21 witness: a Create of the request's cycle failed, and the request has
\* been answered with status 500 and the insert error
C21_SyncAnswered500 ==
    /\ pc["sync"] = "idle"
    /\ returned = Result("sync", 0, ErrInsert)
    /\ response = [status |-> 500, body |-> [error |-> ErrInsert]]

(***************************************************************************)
(* Evaluations of the risk compared (under SpecRisk)                       *)
(***************************************************************************)
\* An evaluation follows one of the same alert on the same table, the
\* database answering, or failing, both times
EvaluatedAgain ==
    /\ Assessed
    /\ verdict' # NoVerdict
    /\ alert' = alert
    /\ dbOk' = dbOk
    /\ store' = store

\* The two verdicts agree in every field
SameVerdict == EvaluatedAgain => verdict' = verdict

\* C22: two evaluations of the same alert against the same table give the
\* same verdict in every field, whatever the time of day and whatever the
\* order in which the database returns rows of equal height.
C22_VerdictIsFunctionOfAlertAndStore == [][SameVerdict]_vars

\* An evaluation is made in this step
Evaluates == verdict' # verdict \/ alert' # alert \/ dbOk' # dbOk \/ queried' # queried

\* The levels an evaluation of the alert on the rows may give by itself
LevelsOf(rows, a, ok) ==
    IF a.Description \notin RainDescriptions THEN {"none"}
    ELSE IF ~ok THEN {"unknown"}
    ELSE IF \A row \in rows :
               ~(/\ row.TideType = "high"
                 /\ row.HeightM > 260
                 /\ row.TideTime.unix >= a.Effective.unix
                 /\ row.TideTime.unix <= a.Expires.unix + 2 * 60)
         THEN {"none"}
    ELSE {"high", "moderate"}

\* The evaluation writes nothing, neither rows nor the state of the
\* fetcher, and its result is one it gives on this table whatever was
\* evaluated before
EvaluationOnlyReads ==
    Evaluates
        => /\ store' = store
           /\ UNCHANGED <<fetcherVars, page, response>>
           /\ verdict'.RiskLevel \in LevelsOf(store, alert', dbOk')
           /\ verdict'.HasRisk <=> verdict'.RiskLevel \in {"high", "moderate"}

\* C23: an evaluation of the risk only reads: the table is the same before
\* and after it for every alert and every table, and evaluations one among
\* the others change neither the table nor what another returns.
C23_EvaluationOnlyReads == [][EvaluationOnlyReads]_vars

\* C23 witness: an evaluation has queried a table of two qualifying rows
\* and returned a verdict of level moderate; the two rows are there
C23_QueriedTableIntact ==
    /\ Assessed /\ queried /\ dbOk
    /\ Cardinality(store) = 2
    /\ Qualifying = store
    /\ verdict.RiskLevel = "moderate"

(***************************************************************************)
(* What the alert endpoint shows (under SpecShow)                          *)
(***************************************************************************)
\* The same alert is shown twice in the same form, once with a verdict of
\* level none and once with one of level unknown
NoneThenUnknown ==
    /\ shown # NoShown
    /\ shown' # NoShown
    /\ shown'[1] = shown[1]
    /\ shown'[2][1] = shown[2][1]
    /\ alert' = alert
    /\ {verdict.RiskLevel, verdict'.RiskLevel} = {"none", "unknown"}

UnknownShownApart == NoneThenUnknown => shown' # shown

\* C24: for one alert, what the endpoint writes for a verdict of level
\* unknown differs from what it writes for a verdict of level none, in the
\* JSON and in the light and the dark HTML card.
C24_UnknownShownApartFromNone == [][UnknownShownApart]_vars

(***************************************************************************)
(* The dates of the header                                                 *)
(***************************************************************************)
\* The year, month and day each header that parses names
HeaderDays ==
    {[text |-> HeaderDec4, ymd |-> [Y |-> 2025, M |-> 12, D |-> 4]],
     [text |-> HeaderDec5, ymd |-> [Y |-> 2025, M |-> 12, D |-> 5]],
     [text |-> HeaderFeb29, ymd |-> [Y |-> 2024, M |-> 2, D |-> 29]],
     [text |-> HeaderJan1, ymd |-> [Y |-> 2026, M |-> 1, D |-> 1]]}

ParsedHeaders == [h \in DateHeaders |-> parseTideDate(h)]

MidnightIn(t, loc) == t.zone = loc /\ HourOf(t) = 0 /\ MinuteOf(t) = 0

\* Both dates are midnights, one in UTC and one in WIB, of the day ymd
DatesOfDay(d, ymd) ==
    /\ MidnightIn(d.dateForStorage, UTC)
    /\ MidnightIn(d.dateWIB, wibTimezone)
    /\ DateOf(d.dateForStorage) = ymd
    /\ DateOf(d.dateWIB) = ymd

HeaderDatesAgree(text, d) ==
    d.ok => \E e \in HeaderDays : e.text = text /\ DatesOfDay(d, e.ymd)

\* Fetch hands the storage date on as the date of the batch and of every row
StorageDateInBatch(d) ==
    (pc["sync"] = "fetch" /\ pc'["sync"] = "tx")
        => /\ fs'["sync"].date = d.dateForStorage
           /\ \A i \in 1..Len(fs'["sync"].tideData) :
                  fs'["sync"].tideData[i].Date = d.dateForStorage

\* The DELETE removes the rows of the station whose date is the storage date
StorageDateIsDeleteKey(d) ==
    (pc["sync"] = "tx" /\ ~fs["sync"].deleted /\ fs'["sync"].deleted)
        => TxView("sync")' =
              {row \in store : ~(row.Location = TideLocation
                                  /\ row.Date.unix = d.dateForStorage.unix)}

\* The rows the cycle has committed carry the storage date
StorageDateInRows(d) ==
    (pc["sync"] = "tx" /\ pc'["sync"] = "idle" /\ returned'.err = NoErr)
        => \A row \in InsertedBySync(store') : row.Date = d.dateForStorage

StorageDateOfHeader(text, d) ==
    /\ HeaderDatesAgree(text, d)
    /\ StorageDateInBatch(d)
    /\ StorageDateIsDeleteKey(d)
    /\ StorageDateInRows(d)

ClockTimes ==
    {[text |-> T0000, h |-> 0, m |-> 0], [text |-> T0312, h |-> 3, m |-> 12],
     [text |-> T0659, h |-> 6, m |-> 59], [text |-> T0700, h |-> 7, m |-> 0],
     [text |-> T0945, h |-> 9, m |-> 45], [text |-> T2210, h |-> 22, m |-> 10]}

\* h:m on the day of UTC midnight date, in UTC+7, as a UTC time
OccursAt(date, h, m) == Time(date.unix + h * Hour + m - 7 * Hour, UTC)

RowOccursAt(data, date, c) ==
    /\ data.Date = date
    /\ data.TideTime = OccursAt(date, c.h, c.m)
    /\ c.h < 7 => CivilDay(data.TideTime) = CivilDay(data.Date) - 1
    /\ c.h >= 7 => CivilDay(data.TideTime) = CivilDay(data.Date)

\* Every tr of DateTables after the first is accepted: row i of the batch
\* is made of tr i + 1
BatchOccursAt(trs, batch, date) ==
    /\ Len(batch) = Len(trs) - 1
    /\ \A i \in 1..Len(batch) :
          \E c \in ClockTimes : c.text = trs[i + 1][2] /\ RowOccursAt(batch[i], date, c)

RowsOccurAt(trs, d) ==
    (pc["sync"] = "fetch" /\ pc'["sync"] = "tx")
        => BatchOccursAt(trs, fs'["sync"].tideData, d.dateForStorage)

\* C26: an accepted row of clock time h:m under the header of day D has
\* occursAt = UTC midnight of D + h hours + m minutes - 7 hours, which is
\* h:m of day D in UTC+7; with a clock time before 07:00 occursAt falls on
\* the UTC day before D while the date of the row is D.
C26_OccursAtIsLocalClockInUTC ==
    [][RowsOccurAt(page.trs, ParsedHeaders[FindDateText(page)])]_vars

\* C26 witness: the row of 6:59 under the header of December 4 is stored
\* with date December 4 and occursAt 23:59 UTC of December 3
C26_EarlyRowOnDayBefore ==
    \E row \in InsertedBySync(store) :
        /\ DateOf(row.Date) = [Y |-> 2025, M |-> 12, D |-> 4]
        /\ DateOf(row.TideTime) = [Y |-> 2025, M |-> 12, D |-> 3]
        /\ HourOf(row.TideTime) = 23
        /\ MinuteOf(row.TideTime) = 59

(***************************************************************************)
(* Cycles in flight                                                        *)
(***************************************************************************)
\* The goroutine p of StartPeriodicFetch is inside FetchAndStore
CycleInFlight(p) == pc[p] \in {"fetch", "tx"}

\* C27: of the cycles that one call of StartPeriodicFetch starts, at most
\* one is in flight at any time, also when the start-up cycle is still
\* running at the 2-hour boundary.
C27_AtMostOneCycleInFlight == ~(CycleInFlight("init") /\ CycleInFlight("loop"))

(***************************************************************************)
(* The highest qualifying observation decides                              *)
(***************************************************************************)
AfterExpires(row) == row.TideTime.unix > alert.Expires.unix

\* C28: when every qualifying observation of the greatest height is after
\* alert.Expires, the verdict is Moderate and cites one of them, whatever
\* lower qualifying High tides lie inside the alert period.
C28_HighestTideAloneDecides ==
    (Assessed /\ RainAlert /\ dbOk /\ Highest # {} /\ \A row \in Highest : AfterExpires(row))
        => /\ verdict.RiskLevel = "moderate"
           /\ \E row \in Highest : Cites(row)

\* C28 witness: a High tide of 2.9 m in the buffer, a High tide of 2.7 m
\* inside the alert period, and the verdict Moderate
C28_LowerTideInsidePeriod ==
    /\ Assessed /\ RainAlert /\ dbOk
    /\ \E row \in Highest : AfterExpires(row) /\ row.HeightM = 290 /\ Cites(row)
    /\ \E row \in Qualifying \ Highest : ~AfterExpires(row) /\ row.HeightM = 270
    /\ verdict.RiskLevel = "moderate"

(***************************************************************************)
(* The shape of a verdict                                                  *)
(***************************************************************************)
LevelAndFlags ==
    /\ verdict.RiskLevel \in {"none", "unknown", "moderate", "high"}
    /\ verdict.HasRisk <=> verdict.RiskLevel \in {"moderate", "high"}
    /\ verdict.HasRisk => verdict.HeavyRain
    /\ ~verdict.HeavyRain => (~queried /\ verdict.Message = MsgNoRain)

\* The peak tide of a verdict with hasRisk: High, above 2.6 m, from
\* alert.Effective to two hours after alert.Expires
PeakOfRisk ==
    verdict.HasRisk
        => /\ verdict.TideType = "high"
           /\ verdict.TideHeightM > 260
           /\ verdict.TideTime.unix >= alert.Effective.unix
           /\ verdict.TideTime.unix <= alert.Expires.unix + 2 * 60

\* Kind and height are set exactly when hasRisk
KindAndHeightWithRisk ==
    /\ verdict.HasRisk <=> verdict.TideType # ""
    /\ verdict.HasRisk <=> verdict.TideHeightM # 0

\* The time is set exactly when hasRisk
PeakTimeWithRisk == verdict.HasRisk <=> verdict.TideTime # ZeroTime

\* C29: every verdict has a level among none, unknown, moderate and high;
\* hasRisk exactly with moderate or high; hasRisk only with heavy rain
\* detected; heavy rain not detected only in the short-circuit; and the
\* peak tide (kind, time, height) is set exactly when hasRisk, then being
\* High, above 2.6 m and within [alert.Effective, alert.Expires + 2h].
C29_VerdictWellFormed ==
    Assessed => LevelAndFlags /\ PeakOfRisk /\ KindAndHeightWithRisk /\ PeakTimeWithRisk

(***************************************************************************)
(* The last commit wins                                                    *)
(***************************************************************************)
\* p's transaction commits in this step
Commits(p) == LeavesTx(p) /\ returned'.err = NoErr

CreatedBy(rows, p) == {row \in rows : row.ID # NoID /\ row.ID[1] = p}

\* The commit of p leaves the rows of its date as its batch, created by p,
\* whatever call has stored the rows it finds; a step without a commit
\* leaves the table as it is
LastCommitWins ==
    /\ \A p \in Procs :
          Commits(p)
              => /\ ExactlyBatch(RowsFor(store', fs[p].date), fs[p].tideData)
                 /\ RowsFor(store', fs[p].date) \subseteq CreatedBy(store', p)
    /\ (\A p \in Procs : ~Commits(p)) => store' = store

\* The call that returned last with nil has left a date with its rows, as
\* many as it counted, and no others
LastCommitStored ==
    (returned.proc \in Procs /\ returned.err = NoErr)
        => \E row \in CreatedBy(store, returned.proc) :
              /\ RowsFor(store, row.Date) \subseteq CreatedBy(store, returned.proc)
              /\ Cardinality(RowsFor(store, row.Date)) = returned.count

\* C30: the rows of a date are the batch of the FetchAndStore call that
\* committed last for it, whatever the order in which the calls fetched:
\* each commit replaces what the commit before it left, and nothing else
\* changes the table.
C30_LastCommitWins == []LastCommitStored /\ [][LastCommitWins]_vars

\* C30 witness: the Sync cycle has committed two rows of December 4 and
\* answered, the start-up call has committed after it, and the day holds
\* the batch of the start-up call, that of the page before the later scrape
C30_StartupOverwritesSync ==
    /\ response = SyncResponse(2, NoErr)
    /\ pc["sync"] = "idle"
    /\ pc["init"] = "done"
    /\ returned = Result("init", 2, NoErr)
    /\ store = BatchRows("init", DocDec4)

(***************************************************************************)
(* A populated day stays populated                                         *)
(***************************************************************************)
\* The days of the station that have a row
PopulatedDays(rows) == {row.Date.unix : row \in {r \in rows : r.Location = TideLocation}}

StaysPopulated == PopulatedDays(store) \subseteq PopulatedDays(store')

\* C31: a (location, date) partition that holds a row holds a row in every
\* later state, whatever cycles succeed, fail or roll back.
C31_PopulatedDayStaysPopulated == [][StaysPopulated]_vars

\* C31 witness: the start-up call has deleted the rows of December 4 in
\* its transaction and failed at COMMIT, a Sync cycle has stored December
\* 5, and the earlier rows of December 4 are in the table
C31_DayKeptThroughFailedCommit ==
    /\ returned = Result("init", 0, ErrCommit)
    /\ store = EarlierRows \cup BatchRows("sync", DocDec5)

(***************************************************************************)
(* The other days and stations                                             *)
(***************************************************************************)
\* p's call of FetchAndStore takes a step
CallStep(p) == pc[p] \in {"fetch", "tx"} /\ (pc'[p] # pc[p] \/ fs'[p] # fs[p])

\* The rows that are not of the station on the date
OutsidePartition(rows, date) == rows \ RowsFor(rows, date)

\* Before the transaction the call changes no row; in it and at its end,
\* whether by COMMIT or by ROLLBACK, no row outside the partition of its date
OnlyOwnPartition ==
    \A p \in Procs :
        /\ (CallStep(p) /\ pc[p] = "fetch") => store' = store
        /\ (CallStep(p) /\ pc[p] = "tx")
              => OutsidePartition(store', fs[p].date) = OutsidePartition(store, fs[p].date)

\* C32: a FetchAndStore for date D changes only the partition
\* (TideLocation, D): the rows of every other date and of every other
\* location are the same after the call as before it, whether it succeeds
\* or fails.
C32_OnlyOwnPartitionChanges == [][OnlyOwnPartition]_vars

\* C32 witness: the cycle for January 1 has committed its two rows; the rows
\* of December 4 and the row of the other station are as they were
C32_OtherDayAndStationKept ==
    /\ FindDateText(page) = HeaderJan1
    /\ returned = Result("sync", 2, NoErr)
    /\ OutsidePartition(store, ParsedHeaders[HeaderJan1].dateForStorage)
          = EarlierRows \cup OtherStationRows
    /\ Cardinality(store) = 5

(***************************************************************************)
(* One cycle for a boundary                                                *)
(***************************************************************************)
\* The loop computes its next boundary in this step
LoopSchedules == pc["loop"] = "calc" /\ pc'["loop"] = "select"
\* The loop starts a cycle in this step
LoopStartsCycle == pc["loop"] # "fetch" /\ pc'["loop"] = "fetch"

\* The boundary is computed when the loop has no cycle running, is later
\* than the time it is computed at and than the boundary before it, and
\* changes at no other step; a cycle starts from the wait for a boundary
\* that has come, and the loop computes a boundary again before it waits
BoundariesIncrease ==
    /\ LoopSchedules => /\ nextRun'.unix > now.unix
                        /\ nextRun'.unix > nextRun.unix
    /\ nextRun' # nextRun => LoopSchedules
    /\ LoopStartsCycle => (pc["loop"] = "select" /\ now.unix >= nextRun.unix)
    /\ (pc["loop"] # "select" /\ pc'["loop"] = "select") => LoopSchedules

\* C33: the boundaries at which the loop starts its cycles are strictly
\* increasing, so that a boundary starts one cycle at most: the next
\* boundary is computed after the cycle has returned and is later than the
\* time it is computed at; a boundary that passes during a cycle gets none.
C33_BoundariesStrictlyIncrease == [][BoundariesIncrease]_vars

\* C33 witness: started at 01:15, the loop has run a cycle and, at 04:15,
\* waits for 06:00: no cycle is left for the boundary of 04:00
C33_FourOClockSkipped ==
    /\ now = In(Date(2025, 12, 4, 4, 15, wibTimezone), UTC)
    /\ ticks = 3
    /\ returned.proc = "loop"
    /\ pc["loop"] = "select"
    /\ nextRun.unix = Date(2025, 12, 4, 6, 0, wibTimezone).unix

(***************************************************************************)
(* The interval argument                                                   *)
(***************************************************************************)
\* StartPeriodicFetch has been called with an interval of d seconds
StartedWith(d) == pc["init"] # "notStarted" /\ interval = d

\* Whatever the interval, the start-up cycle waits for nothing
StartupAtOnce ==
    \A d \in {300, 7200} :
        (StartedWith(d) /\ pc["init"] = "spawned" /\ ~panicked) => ENABLED InitialFetch

\* Whatever the interval, the loop waits for the first even hour of UTC+7
\* after the present and starts its cycle when that hour has come
BoundaryWhateverInterval ==
    \A d \in {300, 7200} :
        StartedWith(d)
            => /\ FixesDeadline
                    => LocalMinutes(nextRun') = LocalDay(now) * 24 * 60 + MarkHour(now) * 60
               /\ BeginsCycle("loop") => now.unix >= nextRun.unix

\* C34: the times at which StartPeriodicFetch starts cycles do not depend
\* on its interval argument, and so not on TIDE_DATA_FETCH_INTERVAL
\* (default 300 seconds): the start-up cycle at once, the others at the
\* 2-hour boundaries of local time.
C34_CadenceIgnoresInterval == []StartupAtOnce /\ [][BoundaryWhateverInterval]_vars

\* C34 witness: started at 01:15 with the default interval of 300 seconds,
\* the loop has waited for 02:00 and not for 01:20, and has begun its cycle
C34_DefaultIntervalWaitsForBoundary ==
    /\ interval = 300
    /\ ticks = 1
    /\ now = In(Date(2025, 12, 4, 2, 15, wibTimezone), UTC)
    /\ pc["loop"] = "fetch"
    /\ nextRun.unix = Date(2025, 12, 4, 2, 0, wibTimezone).unix

(***************************************************************************)
(* The empty batch                                                         *)
(***************************************************************************)
\* The call is handed a batch in this step: it goes on to its transaction
\* or returns
HandedBatch == pc["sync"] = "fetch" /\ pc'["sync"] # "fetch"

\* The call has not entered the transaction: no DELETE and no insert
NoStatement == pc'["sync"] = "idle" /\ store' = store

\* A batch of at least one row opens the transaction; without one the call
\* returns with count 0 and no statement, and with nil unless it was handed
\* an error, which Sync answers with count 0
EmptyBatchTolerated ==
    HandedBatch
        => IF pc'["sync"] = "tx"
           THEN Len(fs'["sync"].tideData) > 0
           ELSE /\ NoStatement
                /\ returned'.proc = "sync"
                /\ returned'.count = 0
                /\ returned'.err = NoErr => response' = SyncResponse(0, NoErr)

\* C35: handed an empty batch, FetchAndStore returns count 0 and no error
\* and executes neither the DELETE nor an insert; the table is unchanged.
C35_EmptyBatchIsNoOp == [][EmptyBatchTolerated]_vars

\* C35 witness: the call has returned 0 and nil, Sync has answered with
\* count 0, and the earlier rows of December 4 are in the table
C35_ReturnedZeroAndNil ==
    /\ returned = Result("sync", 0, NoErr)
    /\ response = SyncResponse(0, NoErr)
    /\ pc["sync"] = "idle"
    /\ store = EarlierRows

(***************************************************************************)
(* The clock text of a row                                                 *)
(***************************************************************************)
\* The two integers of each clock text that is two integers and one colon
ClockShapes ==
    {[text |-> T0312, h |-> 3, m |-> 12], [text |-> T0945, h |-> 9, m |-> 45],
     [text |-> T2210, h |-> 22, m |-> 10], [text |-> TLate, h |-> 25, m |-> 70],
     [text |-> TPlus, h |-> 3, m |-> 12], [text |-> TMinus, h |-> 0 - 1, m |-> 30]}

\* Fetch returns in this step
FetchReturns == pc["sync"] = "fetch" /\ pc'["sync"] # "fetch"

\* The one row of the page is in the batch
RowKept == pc'["sync"] = "tx" /\ Len(fs'["sync"].tideData) = 1
\* The one row of the page was dropped
RowDropped == pc'["sync"] = "idle" /\ returned' = Result("sync", 0, ErrNoData)

\* The row of a clock text is kept, with the time of its two integers, when
\* the text has the shape, and dropped when it has not
ClockTextParsed(text) ==
    IF \E c \in ClockShapes : c.text = text
    THEN /\ RowKept
         /\ \E c \in ClockShapes :
               /\ c.text = text
               /\ fs'["sync"].tideData[1].TideTime
                     = OccursAt(Date(2025, 12, 4, 0, 0, UTC), c.h, c.m)
    ELSE RowDropped

ClockParserExact ==
    (FetchReturns /\ page.trs[2][3] = H28) => ClockTextParsed(page.trs[2][2])

\* C36: the clock-time parser succeeds exactly on two integers separated
\* by one colon and yields that hour and minute ("03:12" gives 3 and 12);
\* it fails on a text with no colon, with more than one colon, with a
\* 12-hour marker or with a part that is no number.
C36_ClockParserShape == [][ClockParserExact]_vars

\* C36 witness: the row of "03:12" is in the batch with the time 03:12 WIB
\* of December 4, that is 20:12 UTC of December 3
C36_ThreeTwelveParsed ==
    /\ page.trs[2][2] = T0312
    /\ page.trs[2][3] = H28
    /\ pc["sync"] = "tx"
    /\ HourOf(fs["sync"].tideData[1].TideTime) = 20
    /\ MinuteOf(fs["sync"].tideData[1].TideTime) = 12

(***************************************************************************)
(* The height text of a row                                                *)
(***************************************************************************)
\* Metres and feet, in hundredths, of each height text that holds the
\* pattern with two valid decimals
HeightShapes ==
    {[text |-> H11, m |-> 110, ft |-> 360], [text |-> H28, m |-> 280, ft |-> 920],
     [text |-> H29, m |-> 290, ft |-> 950], [text |-> HNeg, m |-> 0 - 10, ft |-> 0 - 30],
     [text |-> HInText, m |-> 110, ft |-> 360],
     [text |-> HNoWhole, m |-> 0 - 50, ft |-> 0 - 160]}

HeightTextParsed(text) ==
    IF \E c \in HeightShapes : c.text = text
    THEN /\ RowKept
         /\ \E c \in HeightShapes :
               /\ c.text = text
               /\ fs'["sync"].tideData[1].HeightM = c.m
               /\ fs'["sync"].tideData[1].HeightFt = c.ft
    ELSE RowDropped

HeightParserExact ==
    (FetchReturns /\ page.trs[2][2] = T0312) => HeightTextParsed(page.trs[2][3])

\* C37: parseHeight returns the two signed decimals of "<meters> m (<feet>
\* ft)", negative ones included ("1.1 m (3.6 ft)" gives 1.1 and 3.6,
\* "-0.1 m (-0.3 ft)" gives -0.1 and -0.3), and fails when the pattern does
\* not occur in the text ("bogus") or a matched numeral is no valid decimal.
C37_HeightParserShape == [][HeightParserExact]_vars

\* C37 witness: the row of "-0.1 m (-0.3 ft)" has been stored with -0.1 m
\* and -0.3 ft
C37_NegativeHeightStored ==
    /\ page.trs[2][3] = HNeg
    /\ \E row \in InsertedBySync(store) : row.HeightM = 0 - 10 /\ row.HeightFt = 0 - 30

====
